---- MODULE Spec2Model ----
(***************************************************************************)
(* Model of the marketplace / update subsystem of skills-mcp-local:        *)
(*   src/src/managers/marketplace.ts   (URL resolver, remote client,       *)
(*                                      cache, MarketplaceManager)         *)
(*   src/src/managers/skill-source.ts  (Source Record sidecar)             *)
(*   src/src/tools/update.ts           (updateSkill, handleUpdate,         *)
(*                                      handleInstall)                     *)
(* Optional values are sequences of length 0 or 1, so that every           *)
(* comparison is between values of one kind.                               *)
(***************************************************************************)
EXTENDS Integers, Sequences, FiniteSets, TLC

\* ------------------------------------------------------------------ bounds
MaxCommit == 2
MaxTicks == 2
MaxUrls == 2
MaxSegs == 5
MaxQuery == 2
MaxList == 2

\* --------------------------------------------------------------- constants
CACHE_DURATION_MS == 60 * 60 * 1000

Skills == {"alpha", "beta"}
\* a process is one invocation of a tool
Procs == {"p1", "p2"}
\* the invocation that runs alone
Sequential == {"p1"}

None == <<>>
Some(x) == <<x>>
Get(o) == o[1]

\* --------------------------------------------------------------- URLs
\* A URL string is kept as its scheme, its host name and the segments of its
\* path as written (the text between the slashes, which may be empty, "." or
\* ".."); a string that `new URL` does not accept has no scheme.
GoodUrl == [scheme |-> "https", host |-> "github.com",
            parts |-> <<"owner", "repo", "tree", "main", "skills">>]
BadUrl == [scheme |-> "https", host |-> "example.com",
           parts |-> <<"owner", "repo", "tree", "main", "skills">>]
Urls == {GoodUrl, BadUrl}

\* try { value } catch { return fallback }: what is raised inside does not
\* leave the function
tryCatch_Rethrow(raised, value, fallback) ==
    [threw |-> raised, value |-> IF raised THEN fallback ELSE value]

tryCatch(raised, value, fallback) ==
    [threw |-> FALSE, value |-> IF raised THEN fallback ELSE value]

\* new URL(url) throws on a string that is not an absolute URL
Parseable(url) == url.scheme # ""

RECURSIVE Resolve(_, _)
\* the URL parser resolves the dot segments of the path: ".." drops the
\* segment before it, "." is dropped, and either leaves an empty segment
\* when it ends the path
Resolve(parts, acc) ==
    IF parts = <<>> THEN acc
    ELSE LET s == Head(parts)
             closing == IF Len(parts) = 1 THEN <<"">> ELSE <<>>
         IN IF s = ".."
            THEN Resolve(Tail(parts),
                         (IF acc = <<>> THEN <<>> ELSE SubSeq(acc, 1, Len(acc) - 1)) \o closing)
            ELSE IF s = "."
            THEN Resolve(Tail(parts), acc \o closing)
            ELSE Resolve(Tail(parts), Append(acc, s))

\* urlObj.pathname, as its segments
pathname(url) == Resolve(url.parts, <<>>)

\* split('/').filter(Boolean): the non-empty segments
NonEmpty(parts) == SelectSeq(parts, LAMBDA s : s # "")

RECURSIVE Join(_)
\* restPath.join('/'): the text, segment by segment with the slashes between
Join(parts) ==
    IF parts = <<>> THEN <<>>
    ELSE IF Len(parts) = 1 THEN (IF Head(parts) = "" THEN <<>> ELSE <<Head(parts)>>)
    ELSE (IF Head(parts) = "" THEN <<>> ELSE <<Head(parts)>>) \o <<"/">> \o Join(Tail(parts))

Rest_FromBranch(parts) == SubSeq(parts, 4, Len(parts))

Rest(parts) == SubSeq(parts, 5, Len(parts))

\* the host test: the scheme is not looked at
hostAccepted_Any(url) == TRUE

hostAccepted(url) == url.host = "github.com"

\* parseGitHubUrl with what it raises: the body runs inside try/catch
parseGitHubUrlT(url) ==
    tryCatch(~Parseable(url),
             IF ~Parseable(url) THEN None
             ELSE LET pathParts == NonEmpty(pathname(url))
                  IN IF ~hostAccepted(url) THEN None
                     ELSE IF Len(pathParts) < 4 \/ pathParts[3] # "tree" THEN None
                     ELSE Some([owner |-> pathParts[1], repo |-> pathParts[2],
                                branch |-> pathParts[4], path |-> Join(Rest(pathParts))]),
             None)

parseGitHubUrl(url) == parseGitHubUrlT(url).value

VARIABLES
    now,        \* Date.now(), in milliseconds
    ticks,      \* number of clock advances so far (bounds the run)
    cache,      \* marketplaceCache: url -> optional [skills, timestamp]
    fcall,      \* the fetchSkillsFromMarketplace call in progress
    prevCall,   \* the call that returned before it (history)
    head,       \* remote: commit at the tip of the branch
    pathCommit, \* remote: latest commit touching each skill's path
    fs,         \* local disk: path -> directory
    proc,       \* tool invocations: process -> position and locals
    call,       \* a call of a function of the library made by itself
    config      \* ConfigManager: the config file, configCache, the calls

vars == <<now, ticks, cache, fcall, prevCall, head, pathCommit, fs, proc, call, config>>

\* --------------------------------------------------------------- the clock
TickSteps == {1, CACHE_DURATION_MS - 1, CACHE_DURATION_MS}

\* The tools read the remote at a few places only.  A commit that is pushed
\* between two such places is seen by the tool exactly as if it had been
\* pushed right before the next one, so the remote moves only when every
\* invocation is at one of them.
ReadsRemote == {"idle", "us_begin", "us_clone", "hi_find", "hi_clone"}

\* time passes between two calls of the marketplace client
Tick ==
    /\ ticks < MaxTicks
    /\ \E d \in TickSteps : now' = now + d
    /\ ticks' = ticks + 1
    /\ UNCHANGED <<config, cache, fcall, prevCall, head, pathCommit, fs, proc, call>>

\* --------------------------------------------------- Remote Catalog Client
\* what a request to the GitHub API comes to: an answer that is used, a
\* rejected fetch, a non-success status, a body that is not JSON, a body that
\* is not an array, an empty history
ListOutcomes == {"ok", "throw", "status", "notjson", "notarray"}
CommitOutcomes == {"ok", "throw", "status", "notjson", "notarray", "empty"}

\* fetch(...) rejects, or response.json() does
Raises(outcome) == outcome \in {"throw", "notjson"}

\* the order in which a directory listing gives the skill directories
DirOrder == <<"alpha", "beta">>

\* fetchGitHubDirectory: the directory entries, or [] on any failure.
fetchGitHubDirectoryT(outcome) ==
    tryCatch(Raises(outcome), IF outcome = "ok" THEN DirOrder ELSE <<>>, <<>>)

fetchGitHubDirectory(outcome) == fetchGitHubDirectoryT(outcome).value

MarketplaceSkill(name, url) == [name |-> name, marketplaceUrl |-> url]

RECURSIVE CollectSkills(_, _, _)
\* the loop over the directories: one entry for each directory whose SKILL.md
\* was fetched and parsed (`visible`), in listing order.
CollectSkills(dirs, visible, url) ==
    IF dirs = <<>> THEN <<>>
    ELSE IF Head(dirs) \in visible
         THEN <<MarketplaceSkill(Head(dirs), url)>> \o CollectSkills(Tail(dirs), visible, url)
         ELSE CollectSkills(Tail(dirs), visible, url)

\* --------------------------------------------------------- Marketplace cache
CacheHit_Late(c, url, t) ==
    /\ c[url] # None
    /\ t - Get(c[url]).timestamp <= CACHE_DURATION_MS

CacheHit(c, url, t) ==
    /\ c[url] # None
    /\ t - Get(c[url]).timestamp < CACHE_DURATION_MS

CacheSet(c, url, skills, t) ==
    [c EXCEPT ![url] = Some([skills |-> skills, timestamp |-> t])]

EntryTs(c, url) == IF c[url] = None THEN -1 ELSE Get(c[url]).timestamp

\* ------------------------------------------- fetchSkillsFromMarketplace
IdleCall == [pc |-> "idle", url |-> GoodUrl, at |-> 0, seenTs |-> -1,
             result |-> <<>>, listings |-> 0, entryTs |-> -1]

\* up to the first await: cache lookup, URL parsing
FetchCall(url) ==
    /\ fcall.pc = "idle"
    /\ \A p \in Procs : proc[p].pc = "idle"
    /\ IF CacheHit(cache, url, now)
       THEN fcall' = [pc |-> "done", url |-> url, at |-> now,
                      seenTs |-> EntryTs(cache, url),
                      result |-> Get(cache[url]).skills, listings |-> 0,
                      entryTs |-> EntryTs(cache, url)]
       ELSE IF parseGitHubUrl(url) = None
       THEN fcall' = [pc |-> "done", url |-> url, at |-> now,
                      seenTs |-> EntryTs(cache, url),
                      result |-> <<>>, listings |-> 0, entryTs |-> -1]
       ELSE fcall' = [pc |-> "fetching", url |-> url, at |-> now,
                      seenTs |-> EntryTs(cache, url),
                      result |-> <<>>, listings |-> 0, entryTs |-> -1]
    /\ UNCHANGED <<config, now, ticks, cache, prevCall, head, pathCommit, fs, proc, call>>

\* the remote listing and the descriptor fetches have completed
FetchReturn ==
    /\ fcall.pc = "fetching"
    /\ \E outcome \in ListOutcomes, visible \in SUBSET Skills :
         LET skills == CollectSkills(fetchGitHubDirectory(outcome), visible, fcall.url)
         IN /\ cache' = CacheSet(cache, fcall.url, skills, now)
            /\ fcall' = [fcall EXCEPT !.pc = "done", !.result = skills,
                                      !.listings = 1, !.entryTs = now]
    /\ UNCHANGED <<config, now, ticks, prevCall, head, pathCommit, fs, proc, call>>

\* the caller takes the result; the next call may start
FetchAck ==
    /\ fcall.pc = "done"
    /\ prevCall' = Some([url |-> fcall.url, at |-> fcall.at,
                         result |-> fcall.result, entryTs |-> fcall.entryTs])
    /\ fcall' = IdleCall
    /\ UNCHANGED <<config, now, ticks, cache, head, pathCommit, fs, proc, call>>


\* ------------------------------------------------------------- the remote
\* a commit is pushed to the branch; it touches the paths of the skills in S
Push ==
    /\ head < MaxCommit
    /\ \A p \in DOMAIN proc : proc[p].pc \in ReadsRemote
    /\ \E S \in SUBSET Skills :
         /\ head' = head + 1
         /\ pathCommit' = [s \in Skills |-> IF s \in S THEN head + 1 ELSE pathCommit[s]]
    /\ UNCHANGED <<config, now, ticks, cache, fcall, prevCall, fs, proc, call>>

\* a getLatestCommit that answers with the revision it saw first
getLatestCommitT_Stale(url, skillName, outcome) ==
    IF parseGitHubUrl(url) = None THEN [threw |-> parseGitHubUrlT(url).threw, value |-> None]
    ELSE tryCatch(Raises(outcome), IF outcome = "ok" THEN Some(1) ELSE None, None)

\* getLatestCommit: the newest commit touching <catalog path>/<skillName>,
\* absent when the URL does not resolve or the history query fails.
getLatestCommitT(url, skillName, outcome) ==
    IF parseGitHubUrl(url) = None THEN [threw |-> parseGitHubUrlT(url).threw, value |-> None]
    ELSE tryCatch(Raises(outcome),
                  IF outcome = "ok" THEN Some(pathCommit[skillName]) ELSE None,
                  None)

getLatestCommit(url, skillName, outcome) == getLatestCommitT(url, skillName, outcome).value

FetchError == "Could not fetch latest commit from marketplace"

checkForUpdates_Eager(source, remoteCommit) ==
    IF remoteCommit = None
    THEN [hasUpdate |-> TRUE, localCommit |-> source.commitHash,
          remoteCommit |-> None, error |-> FetchError]
    ELSE [hasUpdate |-> Get(remoteCommit) # source.commitHash,
          localCommit |-> source.commitHash,
          remoteCommit |-> remoteCommit, error |-> ""]

checkForUpdates_Always(source, remoteCommit) ==
    IF remoteCommit = None
    THEN [hasUpdate |-> FALSE, localCommit |-> source.commitHash,
          remoteCommit |-> None, error |-> FetchError]
    ELSE [hasUpdate |-> TRUE, localCommit |-> source.commitHash,
          remoteCommit |-> remoteCommit, error |-> ""]

checkForUpdates(source, remoteCommit) ==
    IF remoteCommit = None
    THEN [hasUpdate |-> FALSE, localCommit |-> source.commitHash,
          remoteCommit |-> None, error |-> FetchError]
    ELSE [hasUpdate |-> Get(remoteCommit) # source.commitHash,
          localCommit |-> source.commitHash,
          remoteCommit |-> remoteCommit, error |-> ""]

\* ------------------------------------------------------------ Source Tracker
\* createSource: the record, stamped with the current time
createSource(marketplaceUrl, skillPath, commitHash, branch, t) ==
    [marketplaceUrl |-> marketplaceUrl, skillPath |-> skillPath,
     installedAt |-> t, commitHash |-> commitHash, branch |-> branch]

\* ------------------------------------------------------------ the local disk
\* Paths of the install directory: a bundle <name>, a staging directory
\* .temp-<ts> or .temp-update-<ts>, a backup .backup-<name>-<ts>.
SkillPath(s) == [kind |-> "skill", name |-> s, ts |-> 0]
TempPath(t) == [kind |-> "temp", name |-> "", ts |-> t]
TempUpdatePath(t) == [kind |-> "tempupdate", name |-> "", ts |-> t]
BackupPath(s, t) == [kind |-> "backup", name |-> s, ts |-> t]

\* A bundle directory: its content (ver) and its sidecar (src).
BundleDir(ver, src) ==
    [type |-> "bundle", ver |-> ver, src |-> src, head |-> 0, sub |-> None, whole |-> TRUE]
\* A sparse clone: the commit it is at (head) and the checked-out skill
\* directory (sub), if any; the content of a checkout is named by its commit.
StagingDir(h, sub) ==
    [type |-> "staging", ver |-> 0, src |-> None, head |-> h, sub |-> sub, whole |-> TRUE]

Exists(f, q) == q \in DOMAIN f
Remove(f, q) == [r \in DOMAIN f \ {q} |-> f[r]]
Put(f, q, d) == [r \in DOMAIN f \cup {q} |-> IF r = q THEN d ELSE f[r]]
\* fs.rename of a directory succeeds when the source exists and the
\* destination does not (every directory here is non-empty); renaming a
\* directory to itself does nothing
CanRename(f, a, b) == Exists(f, a) /\ (a = b \/ ~Exists(f, b))
Rename(f, a, b) == IF a = b THEN f ELSE Put(Remove(f, a), b, f[a])
\* the checked-out skill directory can move out of the clone
CanMoveOut(f, temp, dest) == Exists(f, temp) /\ f[temp].sub # None /\ ~Exists(f, dest)
MoveOut(f, temp, dest) ==
    Put(Put(f, dest, BundleDir(Get(f[temp].sub), None)), temp, [f[temp] EXCEPT !.sub = None])

\* git clone --no-checkout --depth 1 --sparse <repo> <tempDir>
gitClone(f, tempDir) == Put(f, tempDir, StagingDir(head, None))
\* git checkout <branch>: materialises the sparse path
gitCheckout(f, tempDir) == [f EXCEPT ![tempDir].sub = Some(f[tempDir].head)]

\* The sidecar .skill-source.json is a text.  A text is a sequence of tokens:
\* an opening brace, members <<key, value>>, a closing brace, or a literal.
\* JSON.stringify writes the members that are defined, in the order in which
\* createSource sets them; an undefined branch is left out.
stringify(source) ==
    <<<<"{">>,
      <<"marketplaceUrl", source.marketplaceUrl>>,
      <<"skillPath", source.skillPath>>,
      <<"installedAt", source.installedAt>>,
      <<"commitHash", source.commitHash>>>>
    \o (IF source.branch = None THEN <<>> ELSE <<<<"branch", Get(source.branch)>>>>)
    \o <<<<"}">>>>

IsObject(text) ==
    /\ Len(text) >= 2
    /\ text[1] = <<"{">>
    /\ text[Len(text)] = <<"}">>
    /\ \A i \in 2..(Len(text) - 1) : Len(text[i]) = 2

IsNull(text) == text = <<<<"null">>>>

\* the value of the last member called key
Member(text, key) ==
    LET at == {i \in 2..(Len(text) - 1) : text[i][1] = key}
    IN IF at = {} THEN None
       ELSE Some(text[CHOOSE i \in at : \A j \in at : j <= i][2])

\* JSON.parse: the record of an object, null for the literal, and a
\* SyntaxError for anything else
parse(text) ==
    [threw |-> ~IsObject(text) /\ ~IsNull(text),
     value |-> IF IsObject(text)
               THEN Some([marketplaceUrl |-> Get(Member(text, "marketplaceUrl")),
                          skillPath |-> Get(Member(text, "skillPath")),
                          installedAt |-> Get(Member(text, "installedAt")),
                          commitHash |-> Get(Member(text, "commitHash")),
                          branch |-> Member(text, "branch")])
               ELSE None]

\* fs.writeFile(sourcePath, ...): creates or replaces the file
writeFile(f, location, text) == [f EXCEPT ![location].src = Some(text)]

saveSource_KeepFirst(f, location, source) ==
    IF f[location].src = None THEN writeFile(f, location, stringify(source)) ELSE f

\* saveSource: writes the sidecar into the bundle directory
saveSource(f, location, source) == writeFile(f, location, stringify(source))

\* fs.access(sourcePath) succeeds
hasSource(f, location) == Exists(f, location) /\ f[location].src # None

getSourceT_Loose(f, location, readOutcome) ==
    IF ~hasSource(f, location) THEN [threw |-> FALSE, value |-> None]
    ELSE IF readOutcome = "throw" THEN [threw |-> FALSE, value |-> None]
    ELSE tryCatch_Rethrow(parse(Get(f[location].src)).threw,
                          parse(Get(f[location].src)).value, None)

\* getSource: the record of the sidecar, or null when the file is not there,
\* cannot be read, or does not parse
getSourceT(f, location, readOutcome) ==
    IF ~hasSource(f, location) THEN [threw |-> FALSE, value |-> None]
    ELSE IF readOutcome = "throw" THEN [threw |-> FALSE, value |-> None]
    ELSE tryCatch(parse(Get(f[location].src)).threw,
                  parse(Get(f[location].src)).value, None)

getSource(f, location) == getSourceT(f, location, "ok").value

\* -------------------------------------------------------------- discovery
\* discoverSkill: the metadata and the location of the bundle in directory q;
\* it sets no source field
discoverSkill(f, q) == [name |-> q.name, location |-> q, source |-> None]

\* an InstalledSkill whose source field holds the Source Record of its bundle
InstalledSkill(f, q) == [discoverSkill(f, q) EXCEPT !.source = getSource(f, q)]

\* handleUpdate is handed its discovery manager: the server's
\* SkillDiscoveryManager, or one whose skills carry their source field
DiscoveryManagers == {"SkillDiscoveryManager", "withSource"}

\* the directories of the install path that hold a bundle called s
Candidates(f, s) == {q \in DOMAIN f : f[q].type = "bundle" /\ q.name = s}
Present(f) == {s \in Skills : Candidates(f, s) # {}}

RECURSIVE SkillsOf(_, _, _, _)
SkillsOf(manager, f, pick, names) ==
    IF names = <<>> THEN <<>>
    ELSE IF Head(names) \in DOMAIN pick
         THEN <<IF manager = "SkillDiscoveryManager"
                THEN discoverSkill(f, pick[Head(names)])
                ELSE InstalledSkill(f, pick[Head(names)])>>
              \o SkillsOf(manager, f, pick, Tail(names))
         ELSE SkillsOf(manager, f, pick, Tail(names))

\* installedSkills: what discoverAllSkills() finds in the install directory:
\* one skill per name, the first the directory scan meets;
\* the scan order of one directory is the operating system's.
installedSkills(manager, f) ==
    {SkillsOf(manager, f, pick, DirOrder) :
        pick \in {g \in [Present(f) -> DOMAIN f] : \A s \in Present(f) : g[s] \in Candidates(f, s)}}


\* ------------------------------------------------------- tool invocations
NoResult == [kind |-> "none", isError |-> FALSE, updated |-> <<>>, skipped |-> <<>>,
             failed |-> <<>>, summary |-> [updated |-> 0, skipped |-> 0, failed |-> 0]]

\* a result that carries only a text (and possibly isError)
TextResult(kind, isError) == [NoResult EXCEPT !.kind = kind, !.isError = isError]

IdleProc ==
    [pc |-> "idle", op |-> "none", arg |-> None, urlArg |-> None, manager |-> "",
     selected |-> <<>>, tracked |-> <<>>, queue |-> <<>>,
     skill |-> None, status |-> None, tempDir |-> None, backupDir |-> None,
     newCommit |-> None, err |-> "",
     updated |-> <<>>, skipped |-> <<>>, failed |-> <<>>,
     result |-> None,
     \* history of the updateSkill / handleInstall call in progress
     pre |-> None, fetchOutcome |-> "", remoteSha |-> 0, backedUp |-> FALSE, moveFailed |-> FALSE,
     faults |-> {}, made |-> {}, lastUS |-> None]

Set(p, l) == proc' = [proc EXCEPT ![p] = l]

\* a step of the tool invocation p that leaves everything but the disk alone
Frame == UNCHANGED <<config, now, ticks, cache, fcall, prevCall, head, pathCommit, call>>

\* Date.now() as invocation p reads it: the clock's value, or the value that
\* another invocation read in the same millisecond, its clone just started
DateNow(p) ==
    {now} \cup {Get(proc[q].tempDir).ts :
                  q \in {r \in Procs \ {p} : proc[r].pc \in {"us_clone", "hi_clone"}}}

\* the same for a step that reads Date.now(): the clock is a millisecond
\* further at the next reading, so no two readings of one invocation are equal
FrameClock ==
    /\ now' = now + 1
    /\ UNCHANGED <<config, ticks, cache, fcall, prevCall, head, pathCommit, call>>

\* --------------------------------------------------------- handleUpdate
RECURSIVE Filter(_, _)
Filter(seq, keep) ==
    IF seq = <<>> THEN <<>>
    ELSE IF keep[Head(seq).name] THEN <<Head(seq)>> \o Filter(Tail(seq), keep)
         ELSE Filter(Tail(seq), keep)

Names(seq) == {seq[i].name : i \in 1..Len(seq)}

\* skillsToCheck: the named skill, or every installed skill
skillsToCheck(installed, arg) ==
    IF arg = None THEN installed
    ELSE Filter(installed, [s \in Skills |-> s = Get(arg)])

RECURSIVE trackableSkills(_)
\* trackableSkills: those that carry a Source Record
trackableSkills(toCheck) ==
    IF toCheck = <<>> THEN <<>>
    ELSE IF Head(toCheck).source # None
         THEN <<Head(toCheck)>> \o trackableSkills(Tail(toCheck))
         ELSE trackableSkills(Tail(toCheck))

AlreadyUpToDate == "Already up to date"

\* the loop body of handleUpdate: the outcome of one updateSkill call goes to
\* exactly one of the three lists
Classify_Prepend(l, name, ret) ==
    IF ret.success /\ ret.result # None
    THEN [updated |-> <<Get(ret.result)>> \o l.updated, skipped |-> l.skipped, failed |-> l.failed]
    ELSE IF ret.error = AlreadyUpToDate
    THEN [updated |-> l.updated,
          skipped |-> <<[name |-> name, reason |-> ret.error]>> \o l.skipped,
          failed |-> l.failed]
    ELSE [updated |-> l.updated, skipped |-> l.skipped,
          failed |-> <<[name |-> name,
                        error |-> IF ret.error = "" THEN "Unknown error" ELSE ret.error]>>
                     \o l.failed]

Classify_DropFailed(l, name, ret) ==
    IF ret.success /\ ret.result # None
    THEN [updated |-> Append(l.updated, Get(ret.result)), skipped |-> l.skipped, failed |-> l.failed]
    ELSE IF ret.error = AlreadyUpToDate
    THEN [updated |-> l.updated,
          skipped |-> Append(l.skipped, [name |-> name, reason |-> ret.error]),
          failed |-> l.failed]
    ELSE [updated |-> l.updated, skipped |-> l.skipped, failed |-> l.failed]

Classify(l, name, ret) ==
    IF ret.success /\ ret.result # None
    THEN [updated |-> Append(l.updated, Get(ret.result)), skipped |-> l.skipped, failed |-> l.failed]
    ELSE IF ret.error = AlreadyUpToDate
    THEN [updated |-> l.updated,
          skipped |-> Append(l.skipped, [name |-> name, reason |-> ret.error]),
          failed |-> l.failed]
    ELSE [updated |-> l.updated, skipped |-> l.skipped,
          failed |-> Append(l.failed, [name |-> name,
                                       error |-> IF ret.error = "" THEN "Unknown error" ELSE ret.error])]

\* the response of a batch: the three lists and their sizes
BuildResponse(lists) ==
    [kind |-> "batch", isError |-> FALSE,
     updated |-> lists.updated, skipped |-> lists.skipped, failed |-> lists.failed,
     summary |-> [updated |-> Len(lists.updated), skipped |-> Len(lists.skipped),
                  failed |-> Len(lists.failed)]]

Failure(error) == [success |-> FALSE, error |-> error, result |-> None]
Success(name, previous, new) ==
    [success |-> TRUE, error |-> "",
     result |-> Some([name |-> name, previousCommit |-> previous, newCommit |-> new])]

\* updateSkill returns `ret` to the loop of handleUpdate, which files it and
\* goes on to the next skill or builds the response.
Returned(l, ret) ==
    LET sk == Head(l.queue)
        lists == Classify(l, sk.name, ret)
        rest == Tail(l.queue)
    IN [l EXCEPT !.updated = lists.updated, !.skipped = lists.skipped, !.failed = lists.failed,
                 !.queue = rest,
                 !.pc = IF rest = <<>> THEN "done" ELSE "us_begin",
                 !.result = IF rest = <<>> THEN Some(BuildResponse(lists)) ELSE None,
                 !.skill = None, !.status = None, !.tempDir = None, !.backupDir = None,
                 !.newCommit = None, !.err = "",
                 !.lastUS = Some([name |-> sk.name, location |-> sk.location,
                                  source |-> Get(sk.source), ret |-> ret,
                                  status |-> l.status, pre |-> l.pre,
                                  fetchOutcome |-> l.fetchOutcome, remoteSha |-> l.remoteSha,
                                  backedUp |-> l.backedUp, moveFailed |-> l.moveFailed,
                                  faults |-> l.faults, made |-> l.made])]

\* handleUpdate up to the loop: discovery, selection, the untracked cases
HU_Start(p) ==
    /\ proc[p].pc = "idle"
    /\ fcall.pc = "idle"
    /\ \E arg \in {None} \cup {Some(s) : s \in Skills}, manager \in DiscoveryManagers :
       \E installed \in installedSkills(manager, fs) :
         LET toCheck == skillsToCheck(installed, arg)
             trackable == trackableSkills(toCheck)
             l == [IdleProc EXCEPT !.op = "update", !.arg = arg, !.selected = toCheck,
                                   !.manager = manager,
                                   !.tracked = trackable]
         IN IF arg # None /\ toCheck = <<>>
            THEN Set(p, [l EXCEPT !.pc = "done", !.result = Some(TextResult("notfound", TRUE))])
            ELSE IF trackable = <<>>
            THEN Set(p, [l EXCEPT !.pc = "done",
                                  !.result = Some(TextResult(IF arg # None THEN "untracked"
                                                             ELSE "notracking", FALSE))])
            ELSE Set(p, [l EXCEPT !.pc = "us_begin", !.queue = trackable])
    /\ UNCHANGED fs
    /\ Frame

\* --------------------------------------------------------- updateSkill
\* lines 47-71: the update check, the URL, the names of the two directories
US_Check(p) ==
    /\ proc[p].pc = "us_begin"
    /\ \E outcome \in CommitOutcomes :
         LET l == proc[p]
             sk == Head(l.queue)
             source == Get(sk.source)
             remote == getLatestCommit(source.marketplaceUrl, source.skillPath, outcome)
             status == checkForUpdates(source, remote)
             l1 == [l EXCEPT !.skill = Some(sk), !.status = Some(status),
                             !.pre = IF Exists(fs, sk.location) THEN Some(fs[sk.location]) ELSE None, !.fetchOutcome = outcome,
                             !.remoteSha = pathCommit[source.skillPath],
                             !.backedUp = FALSE, !.moveFailed = FALSE,
                             !.faults = {}, !.made = {}, !.lastUS = None]
         IN IF ~status.hasUpdate
            THEN Set(p, Returned(l1, Failure(AlreadyUpToDate)))
            ELSE IF parseGitHubUrl(source.marketplaceUrl) = None
            THEN Set(p, Returned(l1, Failure("Invalid marketplace URL")))
            ELSE \E t \in DateNow(p) :
                   Set(p, [l1 EXCEPT !.pc = "us_clone",
                                     !.tempDir = Some(TempUpdatePath(t)),
                                     !.backupDir = Some(BackupPath(sk.name, t))])
    /\ UNCHANGED fs
    /\ FrameClock

\* a step of the outer try block failed: on to the outer catch
Thrown(l, step) == [l EXCEPT !.pc = "us_cleanup", !.err = step, !.faults = @ \cup {step}]
\* a step of the inner try block failed: on to the restore
ThrownInner(l, step) == [l EXCEPT !.pc = "us_restore_rm", !.err = step, !.faults = @ \cup {step}]

\* line 81: git clone
US_Clone(p) ==
    /\ proc[p].pc = "us_clone"
    /\ LET l == proc[p]
           tempDir == Get(l.tempDir)
       IN \/ /\ ~Exists(fs, tempDir)
             /\ fs' = gitClone(fs, tempDir)
             /\ Set(p, [l EXCEPT !.pc = "us_sparse_init", !.made = @ \cup {tempDir}])
          \/ \* the clone fails and leaves no directory
             /\ UNCHANGED fs
             /\ Set(p, Thrown(l, "clone"))
          \/ \* the clone fails part-way and leaves its directory
             /\ ~Exists(fs, tempDir)
             /\ fs' = gitClone(fs, tempDir)
             /\ Set(p, [Thrown(l, "clone") EXCEPT !.made = @ \cup {tempDir}])
    /\ Frame

\* line 82: git sparse-checkout init
US_SparseInit(p) ==
    /\ proc[p].pc = "us_sparse_init"
    /\ \/ Set(p, [proc[p] EXCEPT !.pc = "us_sparse_set"])
       \/ Set(p, Thrown(proc[p], "sparse_init"))
    /\ UNCHANGED fs
    /\ Frame

\* line 83: git sparse-checkout set
US_SparseSet(p) ==
    /\ proc[p].pc = "us_sparse_set"
    /\ \/ Set(p, [proc[p] EXCEPT !.pc = "us_checkout"])
       \/ Set(p, Thrown(proc[p], "sparse_set"))
    /\ UNCHANGED fs
    /\ Frame

\* line 84: git checkout
US_Checkout(p) ==
    /\ proc[p].pc = "us_checkout"
    /\ LET l == proc[p]
           tempDir == Get(l.tempDir)
       IN \/ /\ Exists(fs, tempDir)
             /\ fs' = gitCheckout(fs, tempDir)
             /\ Set(p, [l EXCEPT !.pc = "us_rev_parse"])
          \/ /\ UNCHANGED fs
             /\ Set(p, Thrown(l, "checkout"))
    /\ Frame

\* lines 87-88: git rev-parse HEAD
US_RevParse(p) ==
    /\ proc[p].pc = "us_rev_parse"
    /\ LET l == proc[p]
           tempDir == Get(l.tempDir)
       IN \/ /\ Exists(fs, tempDir)
             /\ Set(p, [l EXCEPT !.pc = "us_backup", !.newCommit = Some(fs[tempDir].head)])
          \/ Set(p, Thrown(l, "rev_parse"))
    /\ UNCHANGED fs
    /\ Frame

\* line 91: the bundle directory becomes the backup
US_Backup(p) ==
    /\ proc[p].pc = "us_backup"
    /\ LET l == proc[p]
           location == Get(l.skill).location
           backupDir == Get(l.backupDir)
       IN \/ /\ CanRename(fs, location, backupDir)
             /\ fs' = Rename(fs, location, backupDir)
             /\ Set(p, [l EXCEPT !.pc = "us_move", !.backedUp = TRUE, !.made = @ \cup {backupDir}])
          \/ /\ UNCHANGED fs
             /\ Set(p, Thrown(l, "backup"))
    /\ Frame

\* lines 95-96: the staged skill directory moves to the bundle location
US_Move(p) ==
    /\ proc[p].pc = "us_move"
    /\ LET l == proc[p]
           location == Get(l.skill).location
           tempDir == Get(l.tempDir)
       IN \/ /\ CanMoveOut(fs, tempDir, location)
             /\ fs' = MoveOut(fs, tempDir, location)
             /\ Set(p, [l EXCEPT !.pc = "us_save"])
          \/ /\ UNCHANGED fs
             /\ Set(p, [ThrownInner(l, "move") EXCEPT !.moveFailed = TRUE])
    /\ Frame

\* lines 99-106: the new Source Record
US_Save(p) ==
    /\ proc[p].pc = "us_save"
    /\ LET l == proc[p]
           sk == Get(l.skill)
           source == Get(sk.source)
           branch == Get(parseGitHubUrl(source.marketplaceUrl)).branch
           newSource == createSource(source.marketplaceUrl, source.skillPath,
                                     Get(l.newCommit), Some(branch), now)
       IN \/ /\ Exists(fs, sk.location)
             /\ fs' = saveSource(fs, sk.location, newSource)
             /\ Set(p, [l EXCEPT !.pc = "us_rm_temp"])
          \/ /\ UNCHANGED fs
             /\ Set(p, ThrownInner(l, "save"))
    /\ FrameClock


\* fs.rm(dir, {recursive, force}): the directory is gone, whether or not it
\* was there
removeDir(f, dir) == IF Exists(f, dir) THEN Remove(f, dir) ELSE f

\* fs.rm(dir, {recursive, force}) fails: the directory is as it was, or the
\* first files of a bundle, its dot-file sidecar among them, are gone already
rmFailed(f, dir) ==
    {f} \cup (IF Exists(f, dir) /\ f[dir].type = "bundle"
              THEN {[f EXCEPT ![dir].whole = FALSE, ![dir].src = None]}
              ELSE {})

\* line 124: the backup goes back to the bundle location
restoreBackup_Skip(f, backupDir, location) == f

restoreBackup(f, backupDir, location) == Rename(f, backupDir, location)

\* line 133: the outer catch removes the staging directory
cleanupTemp_Skip(f, tempDir) == f

cleanupTemp(f, tempDir) == removeDir(f, tempDir)

\* line 556: the catch of handleInstall removes the install location
cleanupTarget_Skip(f, skillDir) == f

cleanupTarget(f, skillDir) == removeDir(f, skillDir)

\* line 109: the staging directory is removed
US_RmTemp(p) ==
    /\ proc[p].pc = "us_rm_temp"
    /\ LET l == proc[p]
       IN \/ /\ fs' = removeDir(fs, Get(l.tempDir))
             /\ Set(p, [l EXCEPT !.pc = "us_rm_backup"])
          \/ /\ fs' \in rmFailed(fs, Get(l.tempDir))
             /\ Set(p, ThrownInner(l, "rm_temp"))
    /\ Frame

\* lines 110-119: the backup is removed; updateSkill returns success
US_RmBackup(p) ==
    /\ proc[p].pc = "us_rm_backup"
    /\ LET l == proc[p]
           sk == Get(l.skill)
       IN \/ /\ fs' = removeDir(fs, Get(l.backupDir))
             /\ Set(p, Returned(l, Success(sk.name, Get(sk.source).commitHash, Get(l.newCommit))))
          \/ /\ fs' \in rmFailed(fs, Get(l.backupDir))
             /\ Set(p, ThrownInner(l, "rm_backup"))
    /\ Frame

\* line 123: the inner catch removes what is at the bundle location
US_RestoreRm(p) ==
    /\ proc[p].pc = "us_restore_rm"
    /\ LET l == proc[p]
       IN \/ /\ fs' = removeDir(fs, Get(l.skill).location)
             /\ Set(p, [l EXCEPT !.pc = "us_restore_rename"])
          \/ \* the removal fails: the restore is given up (lines 125-127)
             /\ fs' \in rmFailed(fs, Get(l.skill).location)
             /\ Set(p, [l EXCEPT !.pc = "us_cleanup", !.faults = @ \cup {"restore_rm"}])
    /\ Frame

\* line 124: the backup is renamed back; the error is thrown on (line 128)
US_RestoreRename(p) ==
    /\ proc[p].pc = "us_restore_rename"
    /\ LET l == proc[p]
           location == Get(l.skill).location
           backupDir == Get(l.backupDir)
       IN \/ /\ CanRename(fs, backupDir, location)
             /\ fs' = restoreBackup(fs, backupDir, location)
             /\ Set(p, [l EXCEPT !.pc = "us_cleanup"])
          \/ /\ UNCHANGED fs
             /\ Set(p, [l EXCEPT !.pc = "us_cleanup", !.faults = @ \cup {"restore_rename"}])
    /\ Frame

\* lines 130-141: the outer catch; updateSkill returns the failure
US_Cleanup(p) ==
    /\ proc[p].pc = "us_cleanup"
    /\ LET l == proc[p]
       IN \/ /\ fs' = cleanupTemp(fs, Get(l.tempDir))
             /\ Set(p, Returned(l, Failure(l.err)))
          \/ /\ fs' \in rmFailed(fs, Get(l.tempDir))
             /\ Set(p, Returned([l EXCEPT !.faults = @ \cup {"cleanup"}], Failure(l.err)))
    /\ Frame

\* --------------------------------------------------------- fetchAllSkills
\* fetchSkillsFromMarketplace, start to end; `outcome` and `visible` are what
\* the remote answers if it is asked
fetchSkillsFromMarketplace(c, url, t, outcome, visible) ==
    IF CacheHit(c, url, t)
    THEN [skills |-> Get(c[url]).skills, cache |-> c]
    ELSE IF parseGitHubUrl(url) = None
    THEN [skills |-> <<>>, cache |-> c]
    ELSE LET skills == CollectSkills(fetchGitHubDirectory(outcome), visible, url)
         IN [skills |-> skills, cache |-> CacheSet(c, url, skills, t)]

RECURSIVE MergeSkills_LastWins(_, _)
MergeSkills_LastWins(acc, skills) ==
    IF skills = <<>> THEN acc
    ELSE MergeSkills_LastWins(
             Append(SelectSeq(acc, LAMBDA e : e.name # Head(skills).name), Head(skills)),
             Tail(skills))

RECURSIVE MergeSkills(_, _)
\* first occurrence wins
MergeSkills(acc, skills) ==
    IF skills = <<>> THEN acc
    ELSE IF Head(skills).name \in Names(acc)
         THEN MergeSkills(acc, Tail(skills))
         ELSE MergeSkills(Append(acc, Head(skills)), Tail(skills))

RECURSIVE fetchAllSkills(_, _, _, _, _, _)
fetchAllSkills(urls, acc, c, t, outcome, visible) ==
    IF urls = <<>> THEN [skills |-> acc, cache |-> c]
    ELSE LET r == fetchSkillsFromMarketplace(c, Head(urls), t, outcome, visible)
         IN fetchAllSkills(Tail(urls), MergeSkills(acc, r.skills), r.cache, t, outcome, visible)

\* the configured marketplaces: the default configuration
DEFAULT_MARKETPLACE == GoodUrl
getMarketplaces == <<DEFAULT_MARKETPLACE>>

\* --------------------------------------------------------- handleInstall
\* fs.access(skillDir)
targetExists_Never(f, skillDir) == FALSE

targetExists(f, skillDir) == Exists(f, skillDir)

\* lines 444-459: the preflight
HI_Start(p) ==
    /\ proc[p].pc = "idle"
    /\ fcall.pc = "idle"
    /\ \E name \in Skills, urlArg \in {None} \cup {Some(u) : u \in Urls} :
         LET l == [IdleProc EXCEPT !.op = "install", !.arg = Some(name), !.urlArg = urlArg]
         IN IF targetExists(fs, SkillPath(name))
            THEN Set(p, [l EXCEPT !.pc = "done", !.result = Some(TextResult("exists", TRUE))])
            ELSE Set(p, [l EXCEPT !.pc = "hi_find"])
    /\ UNCHANGED fs
    /\ Frame

\* lines 461-503: the skill is looked up in the marketplaces
HI_Find(p) ==
    /\ proc[p].pc = "hi_find"
    /\ \E outcome \in ListOutcomes, visible \in SUBSET Skills, mkdirOk \in BOOLEAN :
         LET l == proc[p]
             name == Get(l.arg)
             marketplaceUrls == IF l.urlArg # None THEN <<Get(l.urlArg)>> ELSE getMarketplaces
             r == fetchAllSkills(marketplaceUrls, <<>>, cache, now, outcome, visible)
             found == {i \in 1..Len(r.skills) : r.skills[i].name = name}
         IN /\ cache' = r.cache
            /\ IF found = {}
               THEN Set(p, [l EXCEPT !.pc = "done", !.result = Some(TextResult("notfound", TRUE))])
               ELSE LET skill == r.skills[CHOOSE i \in found : \A j \in found : i <= j]
                    IN IF parseGitHubUrl(skill.marketplaceUrl) = None
                       THEN Set(p, [l EXCEPT !.pc = "done",
                                             !.result = Some(TextResult("badurl", TRUE))])
                       ELSE IF ~mkdirOk
                       THEN \* fs.mkdir rejects, outside any try block
                            Set(p, [l EXCEPT !.pc = "done",
                                             !.result = Some(TextResult("threw", TRUE))])
                       ELSE \E t \in DateNow(p) :
                              Set(p, [l EXCEPT !.pc = "hi_clone",
                                               !.skill = Some([name |-> name,
                                                               location |-> SkillPath(name),
                                                               source |-> None]),
                                               !.urlArg = Some(skill.marketplaceUrl),
                                               !.tempDir = Some(TempPath(t))])
    /\ now' = now + 1
    /\ UNCHANGED <<config, fs, ticks, fcall, prevCall, head, pathCommit, call>>

\* a step of the try block failed: on to the catch
Caught(l, step) == [l EXCEPT !.pc = "hi_catch_rm_temp", !.err = step, !.faults = @ \cup {step}]

\* line 509: git clone
HI_Clone(p) ==
    /\ proc[p].pc = "hi_clone"
    /\ LET l == proc[p]
           tempDir == Get(l.tempDir)
       IN \/ /\ ~Exists(fs, tempDir)
             /\ fs' = gitClone(fs, tempDir)
             /\ Set(p, [l EXCEPT !.pc = "hi_sparse_init", !.made = @ \cup {tempDir}])
          \/ /\ UNCHANGED fs
             /\ Set(p, Caught(l, "clone"))
          \/ /\ ~Exists(fs, tempDir)
             /\ fs' = gitClone(fs, tempDir)
             /\ Set(p, [Caught(l, "clone") EXCEPT !.made = @ \cup {tempDir}])
    /\ Frame

\* line 510: git sparse-checkout init
HI_SparseInit(p) ==
    /\ proc[p].pc = "hi_sparse_init"
    /\ \/ Set(p, [proc[p] EXCEPT !.pc = "hi_sparse_set"])
       \/ Set(p, Caught(proc[p], "sparse_init"))
    /\ UNCHANGED fs
    /\ Frame

\* line 511: git sparse-checkout set
HI_SparseSet(p) ==
    /\ proc[p].pc = "hi_sparse_set"
    /\ \/ Set(p, [proc[p] EXCEPT !.pc = "hi_checkout"])
       \/ Set(p, Caught(proc[p], "sparse_set"))
    /\ UNCHANGED fs
    /\ Frame

\* line 512: git checkout
HI_Checkout(p) ==
    /\ proc[p].pc = "hi_checkout"
    /\ LET l == proc[p]
           tempDir == Get(l.tempDir)
       IN \/ /\ Exists(fs, tempDir)
             /\ fs' = gitCheckout(fs, tempDir)
             /\ Set(p, [l EXCEPT !.pc = "hi_move"])
          \/ /\ UNCHANGED fs
             /\ Set(p, Caught(l, "checkout"))
    /\ Frame

\* lines 515-516: the staged skill directory moves to the install location
HI_Move(p) ==
    /\ proc[p].pc = "hi_move"
    /\ LET l == proc[p]
           skillDir == Get(l.skill).location
           tempDir == Get(l.tempDir)
       IN \/ /\ CanMoveOut(fs, tempDir, skillDir)
             /\ fs' = MoveOut(fs, tempDir, skillDir)
             /\ Set(p, [l EXCEPT !.pc = "hi_rm_temp", !.made = @ \cup {skillDir}])
          \/ /\ UNCHANGED fs
             /\ Set(p, Caught(l, "move"))
    /\ Frame

\* line 519: the staging directory is removed
HI_RmTemp(p) ==
    /\ proc[p].pc = "hi_rm_temp"
    /\ LET l == proc[p]
       IN \/ /\ fs' = removeDir(fs, Get(l.tempDir))
             /\ Set(p, [l EXCEPT !.pc = "hi_validate"])
          \/ /\ UNCHANGED fs
             /\ Set(p, Caught(l, "rm_temp"))
    /\ Frame

\* lines 522-551: SKILL.md is read and parsed; handleInstall returns
HI_Validate(p) ==
    /\ proc[p].pc = "hi_validate"
    /\ LET l == proc[p]
       IN \/ /\ Exists(fs, Get(l.skill).location)
             /\ \E parsed \in BOOLEAN :
                  Set(p, [l EXCEPT !.pc = "done",
                                   !.result = Some(TextResult(IF parsed THEN "installed"
                                                              ELSE "warning", FALSE))])
          \/ Set(p, Caught(l, "read"))
    /\ UNCHANGED fs
    /\ Frame

\* line 555: the catch removes the staging directory
HI_CatchRmTemp(p) ==
    /\ proc[p].pc = "hi_catch_rm_temp"
    /\ LET l == proc[p]
       IN \/ /\ fs' = cleanupTemp(fs, Get(l.tempDir))
             /\ Set(p, [l EXCEPT !.pc = "hi_catch_rm_dir"])
          \/ \* the removal fails: the rest of the cleanup is skipped (line 557)
             /\ fs' \in rmFailed(fs, Get(l.tempDir))
             /\ Set(p, [l EXCEPT !.pc = "done", !.faults = @ \cup {"cleanup"},
                                 !.result = Some(TextResult("failed", TRUE))])
    /\ Frame

\* lines 556-570: the catch removes the install location; handleInstall
\* returns the error
HI_CatchRmDir(p) ==
    /\ proc[p].pc = "hi_catch_rm_dir"
    /\ LET l == proc[p]
       IN \/ /\ fs' = cleanupTarget(fs, Get(l.skill).location)
             /\ Set(p, [l EXCEPT !.pc = "done", !.result = Some(TextResult("failed", TRUE))])
          \/ /\ fs' \in rmFailed(fs, Get(l.skill).location)
             /\ Set(p, [l EXCEPT !.pc = "done", !.faults = @ \cup {"cleanup_dir"},
                                 !.result = Some(TextResult("failed", TRUE))])
    /\ Frame

\* ------------------------------------------------------------ initial states
\* a revision older than any the remote will show, a time before the start
OldCommit == 0
OldTime == 0 - 1

\* the records an earlier install may have written; one bundle may carry a
\* marketplace URL that does not resolve
InitialSources(s) ==
    {createSource(u, s, OldCommit, None, OldTime) :
        u \in IF s = DirOrder[1] THEN Urls ELSE {GoodUrl}}

\* what may be at a bundle location when the server starts: nothing, a
\* bundle put there by hand, a bundle with a Source Record
InitialBundles(s) ==
    {None, Some(BundleDir(0, None))} \cup {Some(BundleDir(0, Some(stringify(r)))) : r \in InitialSources(s)}

\* what an earlier run may have left behind: a staging directory, or the
\* backup of a tracked bundle
InitialLeftovers ==
    {None, Some(<<TempUpdatePath(OldTime), StagingDir(1, None)>>)}
    \cup {Some(<<BackupPath(s, OldTime), BundleDir(0, Some(stringify(createSource(GoodUrl, s, OldCommit, None, OldTime))))>>) :
            s \in {DirOrder[1]}}

DiskOf(b, extra) ==
    LET paths == {SkillPath(s) : s \in {t \in Skills : b[t] # None}}
                 \cup {Get(extra)[1] : x \in {y \in {1} : extra # None}}
    IN [q \in paths |-> IF q.kind = "skill" THEN Get(b[q.name]) ELSE Get(extra)[2]]

InitialDisks ==
    {DiskOf(b, extra) :
        b \in {c \in [Skills -> UNION {InitialBundles(s) : s \in Skills}] :
                 \A s \in Skills : c[s] \in InitialBundles(s)},
        extra \in InitialLeftovers}

\* the ConfigManager as constructed, with no config file on disk
NoConfig == [file |-> None, configCache |-> None, heap |-> <<>>,
             calls |-> [p \in Procs |-> [pc |-> "idle"]], started |-> 0]

\* no function of the library is being called by itself
NoCall == [fn |-> "none", urls |-> <<>>, i |-> 1, acc |-> <<>>, fetched |-> <<>>,
           failures |-> <<>>, threw |-> FALSE, done |-> FALSE, commit |-> None, status |-> None,
           source |-> None]

Init ==
    /\ now = 0
    /\ ticks = 0
    /\ cache = [u \in Urls |-> None]
    /\ fcall = IdleCall
    /\ prevCall = None
    /\ head = 1
    /\ pathCommit = [s \in Skills |-> 1]
    /\ fs \in InitialDisks
    /\ proc = [p \in Procs |-> IdleProc]
    /\ config = NoConfig
    /\ call = NoCall

Next ==
    \/ Push
    \/ \E p \in Sequential :
         \/ HU_Start(p)
         \/ US_Check(p)
         \/ US_Clone(p)
         \/ US_SparseInit(p)
         \/ US_SparseSet(p)
         \/ US_Checkout(p)
         \/ US_RevParse(p)
         \/ US_Backup(p)
         \/ US_Move(p)
         \/ US_Save(p)
         \/ US_RmTemp(p)
         \/ US_RmBackup(p)
         \/ US_RestoreRm(p)
         \/ US_RestoreRename(p)
         \/ US_Cleanup(p)
         \/ HI_Start(p)
         \/ HI_Find(p)
         \/ HI_Clone(p)
         \/ HI_SparseInit(p)
         \/ HI_SparseSet(p)
         \/ HI_Checkout(p)
         \/ HI_Move(p)
         \/ HI_RmTemp(p)
         \/ HI_Validate(p)
         \/ HI_CatchRmTemp(p)
         \/ HI_CatchRmDir(p)

Spec == Init /\ [][Next]_vars

\* ------------------------------------------------- skills_update by itself
\* One invocation of handleUpdate on an install directory with no leftovers,
\* in which a bundle may also be at the revision the remote shows at the start.
CurrentSources(s) == InitialSources(s) \cup {createSource(GoodUrl, s, 1, None, OldTime)}

UpdateBundles(s) ==
    {None, Some(BundleDir(0, None))}
    \cup {Some(BundleDir(0, Some(stringify(r)))) : r \in CurrentSources(s)}

UpdateDisks ==
    {DiskOf(b, None) :
        b \in {c \in [Skills -> UNION {UpdateBundles(s) : s \in Skills}] :
                 \A s \in Skills : c[s] \in UpdateBundles(s)}}

InitUpdate ==
    /\ now = 0
    /\ ticks = 0
    /\ cache = [u \in Urls |-> None]
    /\ fcall = IdleCall
    /\ prevCall = None
    /\ head = 1
    /\ pathCommit = [s \in Skills |-> 1]
    /\ fs \in UpdateDisks
    /\ proc = [p \in Procs |-> IdleProc]
    /\ config = NoConfig
    /\ call = NoCall

NextUpdate ==
    \/ Push
    \/ \E p \in Sequential :
         \/ HU_Start(p)
         \/ US_Check(p)
         \/ US_Clone(p)
         \/ US_SparseInit(p)
         \/ US_SparseSet(p)
         \/ US_Checkout(p)
         \/ US_RevParse(p)
         \/ US_Backup(p)
         \/ US_Move(p)
         \/ US_Save(p)
         \/ US_RmTemp(p)
         \/ US_RmBackup(p)
         \/ US_RestoreRm(p)
         \/ US_RestoreRename(p)
         \/ US_Cleanup(p)

SpecUpdate == InitUpdate /\ [][NextUpdate]_vars


\* the cache alone: calls of fetchSkillsFromMarketplace that follow one
\* another while time passes
InitCache ==
    /\ Init
    /\ fs = DiskOf([s \in Skills |-> None], None)

NextCache ==
    \/ Tick
    \/ \E url \in Urls : FetchCall(url)
    \/ FetchReturn
    \/ FetchAck

SpecCache == InitCache /\ [][NextCache]_vars

\* ------------------------------------------- two invocations in one server
\* The server hands every request to its handler as it arrives: a second
\* invocation starts while the first is at one of its awaits.  One bundle is
\* installed and tracked, the other is not installed.
InitConcurrent ==
    /\ Init
    /\ fs = DiskOf([s \in Skills |->
                      IF s = DirOrder[1]
                      THEN Some(BundleDir(0, Some(stringify(createSource(GoodUrl, s, OldCommit, None, OldTime)))))
                      ELSE None], None)

NextConcurrent ==
    \E p \in Procs :
         \/ HU_Start(p)
         \/ US_Check(p)
         \/ US_Clone(p)
         \/ US_SparseInit(p)
         \/ US_SparseSet(p)
         \/ US_Checkout(p)
         \/ US_RevParse(p)
         \/ US_Backup(p)
         \/ US_Move(p)
         \/ US_Save(p)
         \/ US_RmTemp(p)
         \/ US_RmBackup(p)
         \/ US_RestoreRm(p)
         \/ US_RestoreRename(p)
         \/ US_Cleanup(p)
         \/ HI_Start(p)
         \/ HI_Find(p)
         \/ HI_Clone(p)
         \/ HI_SparseInit(p)
         \/ HI_SparseSet(p)
         \/ HI_Checkout(p)
         \/ HI_Move(p)
         \/ HI_RmTemp(p)
         \/ HI_Validate(p)
         \/ HI_CatchRmTemp(p)
         \/ HI_CatchRmDir(p)

SpecConcurrent == InitConcurrent /\ [][NextConcurrent]_vars

\* two skills_update requests one after the other: the second is handled
\* when the first has been answered
InTurn(p) == p \in Sequential \/ \A q \in Sequential : proc[q].pc = "done"

NextRepeat ==
    \/ Push
    \/ \E p \in {q \in Procs : InTurn(q)} :
         \/ HU_Start(p)
         \/ US_Check(p)
         \/ US_Clone(p)
         \/ US_SparseInit(p)
         \/ US_SparseSet(p)
         \/ US_Checkout(p)
         \/ US_RevParse(p)
         \/ US_Backup(p)
         \/ US_Move(p)
         \/ US_Save(p)
         \/ US_RmTemp(p)
         \/ US_RmBackup(p)
         \/ US_RestoreRm(p)
         \/ US_RestoreRename(p)
         \/ US_Cleanup(p)

SpecRepeat == InitConcurrent /\ [][NextRepeat]_vars

\* -------------------------------------------- the marketplace manager alone
\* a second marketplace, and a string that is no URL
MirrorUrl == [scheme |-> "https", host |-> "github.com",
              parts |-> <<"owner", "mirror", "tree", "main">>]
NotAUrl == [scheme |-> "", host |-> "", parts |-> <<"owner", "repo">>]
Catalogs == {GoodUrl, MirrorUrl, BadUrl, NotAUrl}

RECURSIVE SeqsUpTo(_, _)
\* the sequences over S of length n or less
SeqsUpTo(S, n) ==
    IF n = 0 THEN {<<>>}
    ELSE LET shorter == SeqsUpTo(S, n - 1)
         IN shorter \cup {Append(q, x) : q \in shorter, x \in S}

UrlLists == SeqsUpTo(Catalogs, MaxUrls)

\* whether fetchSkillsFromMarketplace lets an exception out
fetchSkillsThrows(c, url, t, outcome) ==
    /\ ~CacheHit(c, url, t)
    /\ \/ parseGitHubUrlT(url).threw
       \/ parseGitHubUrl(url) # None /\ fetchGitHubDirectoryT(outcome).threw

\* whether the call met a failure: the URL does not resolve, or the remote
\* was asked and did not give a listing (history)
fetchFailed(c, url, t, outcome) ==
    /\ ~CacheHit(c, url, t)
    /\ (parseGitHubUrl(url) = None \/ outcome # "ok")

\* lines 214-219: fetchAllSkills is called
FA_Call(urls) ==
    /\ call.fn = "none"
    /\ call' = [NoCall EXCEPT !.fn = "fetchAllSkills", !.urls = urls, !.done = (urls = <<>>)]
    /\ UNCHANGED <<config, now, ticks, cache, fcall, prevCall, head, pathCommit, fs, proc>>

\* lines 221-230: one turn of the loop, the next marketplace is fetched and
\* merged into the map
FA_Fetch ==
    /\ call.fn = "fetchAllSkills"
    /\ ~call.done
    /\ \E outcome \in ListOutcomes, visible \in SUBSET Skills :
         LET url == call.urls[call.i]
             r == fetchSkillsFromMarketplace(cache, url, now, outcome, visible)
         IN /\ cache' = r.cache
            /\ call' = [call EXCEPT !.acc = MergeSkills(@, r.skills),
                                    !.fetched = Append(@, r.skills),
                                    !.failures = Append(@, fetchFailed(cache, url, now, outcome)),
                                    !.threw = @ \/ fetchSkillsThrows(cache, url, now, outcome),
                                    !.i = @ + 1,
                                    !.done = (call.i = Len(call.urls))]
    /\ UNCHANGED <<config, now, ticks, fcall, prevCall, head, pathCommit, fs, proc>>

\* fetchSkillsFromMarketplace is called by itself
FS_Call(url) ==
    /\ call.fn = "none"
    /\ \E outcome \in ListOutcomes, visible \in SUBSET Skills :
         LET r == fetchSkillsFromMarketplace(cache, url, now, outcome, visible)
         IN /\ cache' = r.cache
            /\ call' = [NoCall EXCEPT !.fn = "fetchSkillsFromMarketplace", !.urls = <<url>>,
                                      !.acc = r.skills, !.fetched = <<r.skills>>,
                                      !.failures = <<fetchFailed(cache, url, now, outcome)>>,
                                      !.threw = fetchSkillsThrows(cache, url, now, outcome),
                                      !.done = TRUE]
    /\ UNCHANGED <<config, now, ticks, fcall, prevCall, head, pathCommit, fs, proc>>

\* getLatestCommit is called by itself
GL_Call(url, skillName) ==
    /\ call.fn = "none"
    /\ \E outcome \in CommitOutcomes :
         LET r == getLatestCommitT(url, skillName, outcome)
         IN call' = [NoCall EXCEPT !.fn = "getLatestCommit", !.urls = <<url>>,
                                   !.failures = <<parseGitHubUrl(url) = None \/ outcome # "ok">>,
                                   !.commit = r.value, !.threw = r.threw, !.done = TRUE]
    /\ UNCHANGED <<config, now, ticks, cache, fcall, prevCall, head, pathCommit, fs, proc>>

\* checkForUpdates is called by itself
CU_Call(source) ==
    /\ call.fn = "none"
    /\ \E outcome \in CommitOutcomes :
         LET r == getLatestCommitT(source.marketplaceUrl, source.skillPath, outcome)
         IN call' = [NoCall EXCEPT !.fn = "checkForUpdates", !.urls = <<source.marketplaceUrl>>,
                                   !.failures = <<parseGitHubUrl(source.marketplaceUrl) = None
                                                  \/ outcome # "ok">>,
                                   !.commit = r.value, !.threw = r.threw,
                                   !.status = Some(checkForUpdates(source, r.value)),
                                   !.source = Some(source),
                                   !.done = TRUE]
    /\ UNCHANGED <<config, now, ticks, cache, fcall, prevCall, head, pathCommit, fs, proc>>

\* the caller has the result; the cache stays as it is
ClientReturn ==
    /\ call.fn # "none"
    /\ call.done
    /\ call' = NoCall
    /\ UNCHANGED <<config, now, ticks, cache, fcall, prevCall, head, pathCommit, fs, proc>>

ClientSources ==
    {createSource(u, s, c, None, OldTime) : u \in Catalogs, s \in Skills, c \in {OldCommit, 1}}

InitClient ==
    /\ now = 0
    /\ ticks = 0
    /\ cache = [u \in Catalogs |-> None]
    /\ fcall = IdleCall
    /\ prevCall = None
    /\ head = 1
    /\ pathCommit = [s \in Skills |-> 1]
    /\ fs = DiskOf([s \in Skills |-> None], None)
    /\ proc = [p \in Procs |-> IdleProc]
    /\ config = NoConfig
    /\ call = NoCall

NextClient ==
    \/ \E urls \in UrlLists : FA_Call(urls)
    \/ FA_Fetch
    \/ \E url \in Catalogs : FS_Call(url)
    \/ \E url \in Catalogs, s \in Skills : GL_Call(url, s)
    \/ \E source \in ClientSources : CU_Call(source)
    \/ ClientReturn

SpecClient == InitClient /\ [][NextClient]_vars

\* checkForUpdates between catalog fetches, which fill the cache, and pushes
\* to the remote
NextCheck ==
    \/ Push
    \/ \E url \in Catalogs : FS_Call(url)
    \/ \E source \in ClientSources : CU_Call(source)
    \/ ClientReturn

SpecCheck == InitClient /\ [][NextCheck]_vars

\* ------------------------------------------------------ parseGitHubUrl alone
\* what stands between the slashes of the strings that are parsed: two names,
\* the marker, the two dot segments, nothing
Segments == {"owner", "main", "tree", ".", "..", ""}
\* https and http URLs of github.com, https URLs of another host, and strings
\* with no scheme, which new URL refuses
Origins == {<<"https", "github.com">>, <<"http", "github.com">>,
            <<"https", "example.com">>, <<"", "github.com">>}
UrlInputs ==
    {[scheme |-> o[1], host |-> o[2], parts |-> q] :
        o \in Origins, q \in SeqsUpTo(Segments, MaxSegs)}

InitUrl ==
    /\ now = 0
    /\ ticks = 0
    /\ cache = [u \in Urls |-> None]
    /\ fcall = IdleCall
    /\ prevCall = None
    /\ head = 1
    /\ pathCommit = [s \in Skills |-> 1]
    /\ fs = DiskOf([s \in Skills |-> None], None)
    /\ proc = [p \in Procs |-> IdleProc]
    /\ config = NoConfig
    /\ \E u \in UrlInputs :
         call = [fn |-> "parseGitHubUrl", url |-> u, done |-> FALSE, threw |-> FALSE,
                 out |-> None]

\* parseGitHubUrl(url) runs
PU_Parse ==
    /\ call.fn = "parseGitHubUrl"
    /\ ~call.done
    /\ call' = [call EXCEPT !.done = TRUE,
                            !.threw = parseGitHubUrlT(call.url).threw,
                            !.out = parseGitHubUrl(call.url)]
    /\ UNCHANGED <<config, now, ticks, cache, fcall, prevCall, head, pathCommit, fs, proc>>

NextUrl == PU_Parse

SpecUrl == InitUrl /\ [][NextUrl]_vars

\* -------------------------------------------------------- filterSkills alone
\* A text is the sequence of its characters.
Chars == {"a", "A", "b", "B", " "}
\* String.prototype.toLowerCase, character by character
Lower(c) == IF c = "A" THEN "a" ELSE IF c = "B" THEN "b" ELSE c
toLowerCase(str) == [i \in 1..Len(str) |-> Lower(str[i])]

RECURSIVE trimStart(_)
trimStart(str) ==
    IF str = <<>> THEN <<>>
    ELSE IF Head(str) = " " THEN trimStart(Tail(str)) ELSE str

RECURSIVE trimEnd(_)
trimEnd(str) ==
    IF str = <<>> THEN <<>>
    ELSE IF str[Len(str)] = " " THEN trimEnd(SubSeq(str, 1, Len(str) - 1)) ELSE str

\* String.prototype.trim
trim(str) == trimEnd(trimStart(str))

\* String.prototype.includes
includes(str, q) ==
    \E i \in 0..Len(str) : i + Len(q) <= Len(str) /\ SubSeq(str, i + 1, i + Len(q)) = q

\* a marketplace entry with its descriptor texts
CatalogEntry(name, description) ==
    [name |-> name, description |-> description, marketplaceUrl |-> GoodUrl]

filterSkills_NameOnly(skills, filter) ==
    IF filter = <<>> \/ trim(filter) = <<>> THEN skills
    ELSE LET query == toLowerCase(filter)
         IN SelectSeq(skills, LAMBDA skill : includes(toLowerCase(skill.name), query))

\* lines 242-254
filterSkills(skills, filter) ==
    IF filter = <<>> \/ trim(filter) = <<>> THEN skills
    ELSE LET query == toLowerCase(filter)
         IN SelectSeq(skills, LAMBDA skill :
                \/ includes(toLowerCase(skill.name), query)
                \/ includes(toLowerCase(skill.description), query))

\* the entries that are filtered and the queries they are filtered by
FilterEntries ==
    {CatalogEntry(<<"a">>, <<"B", " ", "a">>),
     CatalogEntry(<<"b">>, <<"A", "b">>),
     CatalogEntry(<<"a", "b">>, <<"b", " ", "b">>)}
FilterLists == SeqsUpTo(FilterEntries, MaxList)
Queries == SeqsUpTo(Chars, MaxQuery)

InitFilter ==
    /\ now = 0
    /\ ticks = 0
    /\ cache = [u \in Urls |-> None]
    /\ fcall = IdleCall
    /\ prevCall = None
    /\ head = 1
    /\ pathCommit = [s \in Skills |-> 1]
    /\ fs = DiskOf([s \in Skills |-> None], None)
    /\ proc = [p \in Procs |-> IdleProc]
    /\ config = NoConfig
    /\ \E skills \in FilterLists, q \in Queries :
         call = [fn |-> "filterSkills", skills |-> skills, filter |-> q, done |-> FALSE,
                 out |-> <<>>]

\* filterSkills(skills, filter) runs
FL_Filter ==
    /\ call.fn = "filterSkills"
    /\ ~call.done
    /\ call' = [call EXCEPT !.done = TRUE, !.out = filterSkills(call.skills, call.filter)]
    /\ UNCHANGED <<config, now, ticks, cache, fcall, prevCall, head, pathCommit, fs, proc>>

NextFilter == FL_Filter

SpecFilter == InitFilter /\ [][NextFilter]_vars

\* ------------------------------------------- the Source Tracker by itself
\* saveSource and getSource called on the bundle directories of the install
\* path, while the sidecars are also damaged or removed from outside.
SourceRecords ==
    {createSource(GoodUrl, DirOrder[1], c, b, OldTime) :
        c \in 1..MaxCommit, b \in {None, Some("main")}}

\* a file cut short while it was written
Truncated(text) == SubSeq(text, 1, Len(text) - 1)

\* contents of a sidecar that are not JSON: an empty file, a cut one
NotJson == {<<>>} \cup {Truncated(stringify(r)) : r \in InitialSources(DirOrder[1])}

\* what a sidecar may hold when saveSource did not write it
ForeignTexts == NotJson \cup {<<<<"null">>>>}

SourceBundles ==
    {None, Some(BundleDir(0, None))}
    \cup {Some(BundleDir(0, Some(stringify(r)))) : r \in InitialSources(DirOrder[1])}
    \cup {Some(BundleDir(0, Some(text))) : text \in ForeignTexts}

\* the call last made.  `saved` holds, for each directory, the record of the
\* last saveSource that succeeded with no other write to the sidecar since;
\* `over` tells whether that save replaced another record.
SourceCall(fn, dir, read, threw, value, saved, over) ==
    [fn |-> fn, dir |-> dir, read |-> read, threw |-> threw, value |-> value,
     saved |-> saved, over |-> over]

InitSource ==
    /\ now = 0
    /\ ticks = 0
    /\ cache = [u \in Urls |-> None]
    /\ fcall = IdleCall
    /\ prevCall = None
    /\ head = 1
    /\ pathCommit = [s \in Skills |-> 1]
    /\ fs \in {DiskOf(b, None) : b \in [Skills -> SourceBundles]}
    /\ proc = [p \in Procs |-> IdleProc]
    /\ config = NoConfig
    /\ call = SourceCall("none", SkillPath(DirOrder[1]), "", FALSE, None,
                         [s \in Skills |-> None], [s \in Skills |-> FALSE])

WriteOutcomes == {"ok", "denied", "partial"}

\* saveSource(d, r): the write succeeds, is refused, or stops half way; the
\* error of a failed write is thrown on
SS_Save(d, r) ==
    \E outcome \in WriteOutcomes :
        LET failed == ~Exists(fs, d) \/ outcome # "ok"
            torn == Exists(fs, d) /\ outcome = "partial"
        IN /\ fs' = IF ~failed THEN saveSource(fs, d, r)
                    ELSE IF torn THEN writeFile(fs, d, Truncated(stringify(r)))
                    ELSE fs
           /\ call' = SourceCall("saveSource", d, "", failed, None,
                                 [call.saved EXCEPT ![d.name] =
                                     IF ~failed THEN Some(r) ELSE IF torn THEN None ELSE @],
                                 [call.over EXCEPT ![d.name] =
                                     IF ~failed
                                     THEN getSource(fs, d) # None /\ getSource(fs, d) # Some(r)
                                     ELSE IF torn THEN FALSE ELSE @])
           /\ UNCHANGED <<config, now, ticks, cache, fcall, prevCall, head, pathCommit, proc>>

\* getSource(d): the file is read, or the read fails
SS_Get(d) ==
    \E readOutcome \in {"ok", "throw"} :
        LET got == getSourceT(fs, d, readOutcome)
        IN /\ call' = SourceCall("getSource", d, readOutcome, got.threw, got.value,
                                 call.saved, call.over)
           /\ UNCHANGED <<config, now, ticks, cache, fcall, prevCall, head, pathCommit, fs, proc>>

\* the sidecar of d is removed or overwritten by something else
SS_Damage(d) ==
    /\ Exists(fs, d)
    /\ \E src \in {None} \cup {Some(text) : text \in ForeignTexts} :
         fs' = [fs EXCEPT ![d].src = src]
    /\ call' = SourceCall("none", d, "", FALSE, None,
                          [call.saved EXCEPT ![d.name] = None],
                          [call.over EXCEPT ![d.name] = FALSE])
    /\ UNCHANGED <<config, now, ticks, cache, fcall, prevCall, head, pathCommit, proc>>

NextSource ==
    \E s \in Skills :
        \/ \E r \in SourceRecords : SS_Save(SkillPath(s), r)
        \/ SS_Get(SkillPath(s))
        \/ SS_Damage(SkillPath(s))

SpecSource == InitSource /\ [][NextSource]_vars

\* ------------------------------------------------------- the ConfigManager
\* The config file holds a text as the sidecar does.  Config objects live on
\* a heap: configCache and the local variable `config` of a call may name the
\* same object, which addMarketplace and removeMarketplace change in place.
MaxConfigCalls == 3

CONFIG_VERSION == "1.0"
ConfigUrls == {DEFAULT_MARKETPLACE, MirrorUrl}

\* JSON.stringify(config, null, 2)
stringifyConfig(marketplaces) ==
    <<<<"{">>, <<"version", CONFIG_VERSION>>, <<"marketplaces", marketplaces>>, <<"}">>>>

\* JSON.parse(content) as MarketplaceConfig: the list of the object
parseConfig(text) ==
    [threw |-> ~IsObject(text), value |-> IF IsObject(text) THEN Get(Member(text, "marketplaces")) ELSE <<>>]

\* Array.prototype.indexOf, with positions from 1 and -1 for absent
indexOf(list, x) ==
    IF \E i \in 1..Len(list) : list[i] = x
    THEN CHOOSE i \in 1..Len(list) : list[i] = x /\ \A j \in 1..(i - 1) : list[j] # x
    ELSE 0 - 1

\* list.splice(index, 1)
splice(list, index) == SubSeq(list, 1, index - 1) \o SubSeq(list, index + 1, Len(list))

\* The synchronous part of addMarketplace after loadConfig: the list as it is
\* left, and whether saveConfig is called.
addMarketplace_Always(list, url) == [list |-> Append(list, url), save |-> TRUE]

addMarketplace(list, url) ==
    IF indexOf(list, url) # 0 - 1 THEN [list |-> list, save |-> FALSE]
    ELSE [list |-> Append(list, url), save |-> TRUE]

removeMarketplace_Unguarded(list, url) ==
    IF indexOf(list, url) = 0 - 1 THEN [list |-> list, save |-> FALSE]
    ELSE [list |-> splice(list, indexOf(list, url)), save |-> TRUE]

\* the same for removeMarketplace
removeMarketplace(list, url) ==
    IF indexOf(list, url) = 0 - 1 THEN [list |-> list, save |-> FALSE]
    ELSE IF Len(list) <= 1 THEN [list |-> list, save |-> FALSE]
    ELSE [list |-> splice(list, indexOf(list, url)), save |-> TRUE]

\* resetMarketplaces builds a new config
resetMarketplaces == <<DEFAULT_MARKETPLACE>>

NoDuplicates(list) == \A i, j \in 1..Len(list) : list[i] = list[j] => i = j

\* the lists a config file may hold at the start: not empty, no URL twice
InitialLists == {l \in SeqsUpTo(ConfigUrls, MaxUrls) : l # <<>> /\ NoDuplicates(l)}

InitialConfigs ==
    {[NoConfig EXCEPT !.file = file] :
        file \in {None, Some(Truncated(stringifyConfig(<<DEFAULT_MARKETPLACE>>)))}
                  \cup {Some(stringifyConfig(l)) : l \in InitialLists}}

InitConfig ==
    /\ now = 0
    /\ ticks = 0
    /\ cache = [u \in Urls |-> None]
    /\ fcall = IdleCall
    /\ prevCall = None
    /\ head = 1
    /\ pathCommit = [s \in Skills |-> 1]
    /\ fs = DiskOf([s \in Skills |-> None], None)
    /\ proc = [p \in Procs |-> IdleProc]
    /\ call = NoCall
    /\ config \in InitialConfigs

ConfigFrame == UNCHANGED <<now, ticks, cache, fcall, prevCall, head, pathCommit, fs, proc, call>>

\* a call of the ConfigManager in progress: `ref` names its config object,
\* `before` is the list it found (history)
ConfigCall(pc, op, url, ref) ==
    [pc |-> pc, op |-> op, url |-> url, ref |-> ref, threw |-> FALSE, before |-> <<>>,
     saved |-> FALSE]

\* a new object on the heap
Alloc(c, list) == [c EXCEPT !.heap = Append(@, list)]

\* addMarketplace(url), removeMarketplace(url) or resetMarketplaces() is
\* called: loadConfig answers from configCache or starts reading the file;
\* resetMarketplaces builds its config and goes to saveConfig
CM_Call(p, op, url) ==
    /\ config.calls[p].pc = "idle"
    /\ config.started < MaxConfigCalls
    /\ LET c == [config EXCEPT !.started = @ + 1]
       IN IF op = "reset"
          THEN config' = [Alloc(c, resetMarketplaces) EXCEPT
                            !.calls[p] = ConfigCall("mkdir", op, url, Len(c.heap) + 1)]
          ELSE IF c.configCache # None
          THEN config' = [c EXCEPT !.calls[p] = ConfigCall("apply", op, url, Get(c.configCache))]
          ELSE config' = [c EXCEPT !.calls[p] = ConfigCall("reading", op, url, 0)]
    /\ ConfigFrame

\* loadConfig after fs.readFile: the parsed config is cached; when the file
\* is missing or does not parse, a default config is returned and not cached
CM_Read(p) ==
    /\ config.calls[p].pc = "reading"
    /\ \E readOutcome \in {"ok", "throw"} :
         LET ok == config.file # None /\ readOutcome = "ok" /\ ~parseConfig(Get(config.file)).threw
             list == IF ok THEN parseConfig(Get(config.file)).value ELSE <<DEFAULT_MARKETPLACE>>
             id == Len(config.heap) + 1
         IN config' = [Alloc(config, list) EXCEPT
                          !.configCache = IF ok THEN Some(id) ELSE @,
                          !.calls[p].pc = "apply", !.calls[p].ref = id]
    /\ ConfigFrame

\* the test and the change of the list, in one synchronous piece
CM_Apply(p) ==
    /\ config.calls[p].pc = "apply"
    /\ LET l == config.calls[p]
           list == config.heap[l.ref]
           r == IF l.op = "add" THEN addMarketplace(list, l.url) ELSE removeMarketplace(list, l.url)
       IN config' = [config EXCEPT !.heap[l.ref] = r.list,
                                   !.calls[p].before = list,
                                   !.calls[p].pc = IF r.save THEN "mkdir" ELSE "done"]
    /\ ConfigFrame

\* saveConfig: fs.mkdir(dir, {recursive: true})
CM_Mkdir(p) ==
    /\ config.calls[p].pc = "mkdir"
    /\ \E outcome \in {"ok", "throw"} :
         config' = [config EXCEPT !.calls[p].pc = IF outcome = "ok" THEN "write" ELSE "done",
                                  !.calls[p].threw = outcome # "ok"]
    /\ ConfigFrame

\* saveConfig: fs.writeFile of the config as it is now
CM_Write(p) ==
    /\ config.calls[p].pc = "write"
    /\ \E outcome \in WriteOutcomes :
         LET text == stringifyConfig(config.heap[config.calls[p].ref])
         IN config' = [config EXCEPT
                          !.file = IF outcome = "ok" THEN Some(text)
                                   ELSE IF outcome = "partial" THEN Some(Truncated(text))
                                   ELSE @,
                          !.calls[p].pc = IF outcome = "ok" THEN "cache" ELSE "done",
                          !.calls[p].threw = outcome # "ok"]
    /\ ConfigFrame

\* saveConfig: this.configCache = config
CM_Cache(p) ==
    /\ config.calls[p].pc = "cache"
    /\ config' = [config EXCEPT !.configCache = Some(config.calls[p].ref),
                                !.calls[p].pc = "done", !.calls[p].saved = TRUE]
    /\ ConfigFrame

\* the call returns or throws to its caller
CM_Return(p) ==
    /\ config.calls[p].pc = "done"
    /\ config' = [config EXCEPT !.calls[p] = [pc |-> "idle"]]
    /\ ConfigFrame

NextConfig ==
    \E p \in Procs :
        \/ \E op \in {"add", "remove"}, url \in ConfigUrls : CM_Call(p, op, url)
        \/ CM_Call(p, "reset", DEFAULT_MARKETPLACE)
        \/ CM_Read(p)
        \/ CM_Apply(p)
        \/ CM_Mkdir(p)
        \/ CM_Write(p)
        \/ CM_Cache(p)
        \/ CM_Return(p)

SpecConfig == InitConfig /\ [][NextConfig]_vars

\* ----------------------------------------------- discovery over search paths
\* discoverAllSkills(paths) by itself.  A search path names a directory, which
\* is missing or lists its entries in the order readdir gives them; an entry
\* is a directory with no SKILL.md, with one that does not parse, or with one
\* whose frontmatter gives a skill name.
MaxPaths == 2
MaxEntries == 2

SearchDirs == {"home", "project"}
SkillFiles == {"none", "invalid"} \cup Skills

\* discoverSkill(skillDir) on entry e of searchPath: nothing without SKILL.md,
\* the name of the frontmatter, or the name of the directory when the
\* frontmatter does not parse
discoverEntry(searchPath, e) ==
    IF e.file = "none" THEN None
    ELSE Some([name |-> IF e.file = "invalid" THEN e.dir ELSE e.file,
               location |-> <<searchPath, e.dir>>,
               isValid |-> e.file # "invalid"])

RECURSIVE discoverEntries(_, _)
\* the loop over the entries of one directory
discoverEntries(searchPath, entries) ==
    IF entries = <<>> THEN <<>>
    ELSE LET skill == discoverEntry(searchPath, Head(entries))
         IN (IF skill = None THEN <<>> ELSE <<Get(skill)>>)
            \o discoverEntries(searchPath, Tail(entries))

\* discoverSkillsInPath: nothing for a missing directory or a failed readdir
discoverSkillsInPath(disk, unreadable, searchPath) ==
    IF disk[searchPath] = None THEN <<>>
    ELSE tryCatch(searchPath \in unreadable,
                  discoverEntries(searchPath, Get(disk[searchPath])), <<>>).value

RECURSIVE AddSkills_LastWins(_, _)
AddSkills_LastWins(skillMap, skills) ==
    IF skills = <<>> THEN skillMap
    ELSE AddSkills_LastWins(
             IF Head(skills).name \in Names(skillMap)
             THEN [i \in 1..Len(skillMap) |->
                      IF skillMap[i].name = Head(skills).name THEN Head(skills) ELSE skillMap[i]]
             ELSE Append(skillMap, Head(skills)),
             Tail(skills))

RECURSIVE AddSkills(_, _)
\* the inner loop: a skill enters skillMap when its name is not there yet
AddSkills(skillMap, skills) ==
    IF skills = <<>> THEN skillMap
    ELSE AddSkills(IF Head(skills).name \in Names(skillMap) THEN skillMap
                   ELSE Append(skillMap, Head(skills)),
                   Tail(skills))

RECURSIVE discoverFrom(_, _, _, _)
\* the outer loop over the search paths
discoverFrom(skillMap, disk, unreadable, paths) ==
    IF paths = <<>> THEN skillMap
    ELSE discoverFrom(AddSkills(skillMap, discoverSkillsInPath(disk, unreadable, Head(paths))),
                      disk, unreadable, Tail(paths))

\* discoverAllSkills(searchPaths): the values of skillMap, in insertion order
discoverAllSkills(disk, unreadable, paths) == discoverFrom(<<>>, disk, unreadable, paths)

\* the listings of a directory: no two entries of one name
Listings ==
    {l \in SeqsUpTo([dir : Skills, file : SkillFiles], MaxEntries) :
        \A i, j \in 1..Len(l) : l[i].dir = l[j].dir => i = j}

InitDiscover ==
    /\ now = 0
    /\ ticks = 0
    /\ cache = [u \in Urls |-> None]
    /\ fcall = IdleCall
    /\ prevCall = None
    /\ head = 1
    /\ pathCommit = [s \in Skills |-> 1]
    /\ fs = DiskOf([s \in Skills |-> None], None)
    /\ proc = [p \in Procs |-> IdleProc]
    /\ config = NoConfig
    /\ \E disk \in [SearchDirs -> {None} \cup {Some(l) : l \in Listings}],
          unreadable \in SUBSET SearchDirs,
          paths \in SeqsUpTo(SearchDirs, MaxPaths) :
         call = [fn |-> "discoverAllSkills", disk |-> disk, unreadable |-> unreadable,
                 paths |-> paths, done |-> FALSE, out |-> <<>>]

\* discoverAllSkills(paths) runs
DA_Discover ==
    /\ call.fn = "discoverAllSkills"
    /\ ~call.done
    /\ call' = [call EXCEPT !.done = TRUE,
                            !.out = discoverAllSkills(call.disk, call.unreadable, call.paths)]
    /\ UNCHANGED <<config, now, ticks, cache, fcall, prevCall, head, pathCommit, fs, proc>>

NextDiscover == DA_Discover

SpecDiscover == InitDiscover /\ [][NextDiscover]_vars

\* ---------------------------------------------------- a catalog by itself
\* fetchSkillsFromMarketplace with the remote listing in full.  An entry of
\* the listing is a directory or a file; the SKILL.md of a directory is not
\* there (or its request fails), is empty, does not parse, or has a
\* frontmatter that gives a skill name.
EntryNames == Skills \cup {"docs"}
EntryTypes == {"dir", "file"}
RemoteFiles == {"none", "empty", "invalid"} \cup Skills
CatalogUrls == {GoodUrl, BadUrl}

\* the listings of the catalog directory: no two entries of one name
CatalogListings ==
    {l \in SeqsUpTo([name : EntryNames, type : EntryTypes, file : RemoteFiles], MaxEntries) :
        \A i, j \in 1..Len(l) : l[i].name = l[j].name => i = j}

\* fetchGitHubDirectory on a remote that would list `entries`
listDirectory(outcome, entries) ==
    tryCatch(Raises(outcome), IF outcome = "ok" THEN entries ELSE <<>>, <<>>).value

\* fetchGitHubRawFile: the text, or null when the request fails
fetchGitHubRawFile(dir) == IF dir.file = "none" THEN None ELSE Some(dir.file)

\* parseSkillFrontmatter: the metadata of a frontmatter that is valid
parseSkillFrontmatter(content) ==
    IF content \in Skills
    THEN [success |-> TRUE, data |-> Some([name |-> content])]
    ELSE [success |-> FALSE, data |-> None]

directories_All(entries) == entries

\* entries.filter(e => e.type === 'dir')
directories(entries) == SelectSeq(entries, LAMBDA e : e.type = "dir")

RECURSIVE catalogSkills(_, _)
\* lines 174-192: the loop over the directories.  An entry carries the name
\* of its metadata, the URL and the install command; `dir` is the directory
\* whose SKILL.md produced it.
catalogSkills(dirs, marketplaceUrl) ==
    IF dirs = <<>> THEN <<>>
    ELSE LET dir == Head(dirs)
             content == fetchGitHubRawFile(dir)
             parseResult == parseSkillFrontmatter(Get(content))
         IN (IF content = None \/ Get(content) = "empty" THEN <<>>
             ELSE IF parseResult.success /\ parseResult.data # None
             THEN <<[name |-> Get(parseResult.data).name,
                     marketplaceUrl |-> marketplaceUrl,
                     installCommand |-> <<"skills_install", Get(parseResult.data).name>>,
                     dir |-> dir.name]>>
             ELSE <<>>)
            \o catalogSkills(Tail(dirs), marketplaceUrl)

\* fetchSkillsFromMarketplace, start to end, on a remote that would list
\* `entries`
fetchCatalog(c, url, t, outcome, entries) ==
    IF CacheHit(c, url, t)
    THEN [skills |-> Get(c[url]).skills, cache |-> c, listed |-> <<>>, miss |-> FALSE]
    ELSE IF parseGitHubUrl(url) = None
    THEN [skills |-> <<>>, cache |-> c, listed |-> <<>>, miss |-> TRUE]
    ELSE LET listed == listDirectory(outcome, entries)
             skills == catalogSkills(directories(listed), url)
         IN [skills |-> skills, cache |-> CacheSet(c, url, skills, t),
             listed |-> listed, miss |-> TRUE]

\* handleInstall, line 471: the first entry of that name
findSkill(allSkills, skill_name) ==
    LET found == {i \in 1..Len(allSkills) : allSkills[i].name = skill_name}
    IN IF found = {} THEN None
       ELSE Some(allSkills[CHOOSE i \in found : \A j \in found : i <= j])

\* handleInstall, line 496, and the catalog's line 175: the subpath of a
\* directory of the catalog
subPath(basePath, name) ==
    IF basePath # <<>> THEN basePath \o <<"/">> \o <<name>> ELSE <<name>>

InitCatalog ==
    /\ now = 0
    /\ ticks = 0
    /\ cache = [u \in Catalogs |-> None]
    /\ fcall = IdleCall
    /\ prevCall = None
    /\ head = 1
    /\ pathCommit = [s \in Skills |-> 1]
    /\ fs = DiskOf([s \in Skills |-> None], None)
    /\ proc = [p \in Procs |-> IdleProc]
    /\ config = NoConfig
    /\ call = NoCall

\* fetchAllSkills([url]): the catalog is fetched and its entries are merged;
\* a remote that is not asked, or does not answer, lists nothing
CT_Fetch(url) ==
    /\ call.fn = "none"
    /\ \E outcome \in ListOutcomes :
         LET asked == ~CacheHit(cache, url, now) /\ parseGitHubUrl(url) # None
         IN \E entries \in IF asked /\ outcome = "ok" THEN CatalogListings ELSE {<<>>} :
              LET r == fetchCatalog(cache, url, now, outcome, entries)
              IN /\ cache' = r.cache
                 /\ call' = [fn |-> "fetchCatalog", url |-> url, listed |-> r.listed,
                             miss |-> r.miss, skills |-> r.skills,
                             allSkills |-> MergeSkills(<<>>, r.skills), done |-> TRUE]
    /\ UNCHANGED <<config, now, ticks, fcall, prevCall, head, pathCommit, fs, proc>>

NextCatalog ==
    \/ \E url \in CatalogUrls : CT_Fetch(url)
    \/ ClientReturn

SpecCatalog == InitCatalog /\ [][NextCatalog]_vars

\* ------------------------------------------------------ checkSkillUpdates
\* The update checks of the skills that have a source are all issued before
\* any is awaited (Promise.all over the mapped skills); they complete in any
\* order.  `answer` is what the remote gave to the query of a skill, `asked`
\* that its query was issued.
StartupSources ==
    {createSource(u, s, c, None, OldTime) : u \in Urls, s \in Skills, c \in {OldCommit, 1}}

StartupSkill(n, src) ==
    [name |-> n, source |-> src, updateStatus |-> None, answer |-> None, asked |-> FALSE]

\* the skills handed to checkSkillUpdates: no two of one name
StartupSkills ==
    {l \in SeqsUpTo(UNION {{StartupSkill(n, None)}
                            \cup {StartupSkill(n, Some(rec)) :
                                    rec \in {y \in StartupSources : y.skillPath = n}} :
                            n \in Skills},
                    Cardinality(Skills)) :
        \A i, j \in 1..Len(l) : l[i].name = l[j].name => i = j}

\* a writer that gives the status to the first skill that waits for one
setUpdateStatus_InTurn(skills, i, status, answer) ==
    LET waiting == {k \in 1..Len(skills) : skills[k].asked /\ skills[k].updateStatus = None}
        first == CHOOSE k \in waiting : \A m \in waiting : k <= m
    IN [skills EXCEPT ![first].updateStatus = Some(status), ![i].answer = answer]

\* line 36: skill.updateStatus = status, on the skill of the closure
setUpdateStatus(skills, i, status, answer) ==
    [skills EXCEPT ![i].updateStatus = Some(status), ![i].answer = answer]

\* skills.filter(s => s.source), as places in the list
trackablePlaces(skills) == {i \in 1..Len(skills) : skills[i].source # None}

InitStartup ==
    /\ now = 0
    /\ ticks = 0
    /\ cache = [u \in Urls |-> None]
    /\ fcall = IdleCall
    /\ prevCall = None
    /\ head = 1
    /\ pathCommit = [s \in Skills |-> 1]
    /\ fs = DiskOf([s \in Skills |-> None], None)
    /\ proc = [p \in Procs |-> IdleProc]
    /\ config = NoConfig
    /\ \E skills \in StartupSkills :
         call = [fn |-> "checkSkillUpdates", pc |-> "start", skills |-> skills,
                 pending |-> {}, done |-> FALSE]

\* lines 22-43: nothing to check, or every check is issued
CK_Start ==
    /\ call.fn = "checkSkillUpdates"
    /\ call.pc = "start"
    /\ LET places == trackablePlaces(call.skills)
       IN IF places = {}
          THEN call' = [call EXCEPT !.pc = "done", !.done = TRUE]
          ELSE call' = [call EXCEPT !.pc = "awaiting", !.pending = places,
                                    !.skills = [i \in 1..Len(call.skills) |->
                                                  [call.skills[i] EXCEPT !.asked = i \in places]]]
    /\ UNCHANGED <<config, now, ticks, cache, fcall, prevCall, head, pathCommit, fs, proc>>

\* lines 34-41: the check of skill i completes
CK_Settle(i) ==
    /\ call.fn = "checkSkillUpdates"
    /\ call.pc = "awaiting"
    /\ i \in call.pending
    /\ \E outcome \in CommitOutcomes :
         LET source == Get(call.skills[i].source)
             r == getLatestCommitT(source.marketplaceUrl, source.skillPath, outcome)
             status == checkForUpdates(source, r.value)
         IN call' = [call EXCEPT
                       !.pending = @ \ {i},
                       !.skills = IF r.threw THEN @
                                  ELSE setUpdateStatus(@, i, status, r.value)]
    /\ UNCHANGED <<config, now, ticks, cache, fcall, prevCall, head, pathCommit, fs, proc>>

\* line 45: Promise.all resolves when every check has completed
CK_Return ==
    /\ call.fn = "checkSkillUpdates"
    /\ call.pc = "awaiting"
    /\ call.pending = {}
    /\ call' = [call EXCEPT !.pc = "done", !.done = TRUE]
    /\ UNCHANGED <<config, now, ticks, cache, fcall, prevCall, head, pathCommit, fs, proc>>

NextStartup ==
    \/ CK_Start
    \/ \E i \in 1..Cardinality(Skills) : CK_Settle(i)
    \/ CK_Return

SpecStartup == InitStartup /\ [][NextStartup]_vars

\* ===================================================================== claims
\* the updateSkill call that has just returned in invocation p
Ret(p) == Get(proc[p].lastUS)
HasReturned(p) == proc[p].lastUS # None
\* the staging and backup directories among a set of paths
Artifacts(paths) == {q \in paths : q.kind \in {"temp", "tempupdate", "backup"}}
\* the steps that undo a failed operation
RecoverySteps == {"restore_rm", "restore_rename", "cleanup"}

\* the pre-update directory is back, the failure carries the error of the
\* move, and neither the staging nor the backup directory of the call is left
RolledBack(u) ==
    /\ Exists(fs, u.location)
    /\ fs[u.location] = Get(u.pre)
    /\ ~u.ret.success
    /\ u.ret.error = "move"
    /\ Artifacts(u.made) \cap DOMAIN fs = {}

C2_InstallExisting ==
    [][\A p \in Procs :
          (/\ proc[p].pc = "idle"
           /\ proc'[p].op = "install"
           /\ Exists(fs, SkillPath(Get(proc'[p].arg))))
          => (/\ proc'[p].pc = "done"
              /\ Get(proc'[p].result).isError
              /\ fs' = fs)]_vars

C2_Witness ==
    \E p \in Procs :
        /\ proc[p].op = "install" /\ proc[p].pc = "done"
        /\ Get(proc[p].result).kind = "exists"
        /\ Exists(fs, SkillPath(Get(proc[p].arg)))

\* C3: a tracked bundle whose remote revision fetch failed is in the failed
\* list and not in the skipped list.
C3_FetchFailureIsFailed ==
    \A p \in Procs :
        (HasReturned(p) /\ Get(Ret(p).status).remoteCommit = None)
        => (/\ Ret(p).name \in Names(proc[p].failed)
            /\ Ret(p).name \notin Names(proc[p].skipped))

\* the update checks that invocation p has made and still holds
Checks(p) ==
    {[status |-> Get(proc[p].status), source |-> Get(Get(proc[p].skill).source),
      outcome |-> proc[p].fetchOutcome, sha |-> proc[p].remoteSha] :
        x \in {y \in {1} : proc[p].status # None}}
    \cup {[status |-> Get(Ret(p).status), source |-> Ret(p).source,
           outcome |-> Ret(p).fetchOutcome, sha |-> Ret(p).remoteSha] :
            x \in {y \in {1} : HasReturned(p)}}

Fetched(c) == parseGitHubUrl(c.source.marketplaceUrl) # None /\ c.outcome = "ok"

\* C4: checkForUpdates says hasUpdate exactly when the revision was fetched
\* and differs from the stored one; a failed fetch gives hasUpdate = false,
\* an error text and no remote revision.
C4_UpdateDetection ==
    \A p \in Procs : \A c \in Checks(p) :
        LET fetched == Fetched(c)
        IN /\ c.status.hasUpdate <=> (fetched /\ c.sha # c.source.commitHash)
           /\ ~fetched => (/\ ~c.status.hasUpdate
                           /\ c.status.error # ""
                           /\ c.status.remoteCommit = None)
           /\ fetched => c.status.remoteCommit = Some(c.sha)

C4_Witness ==
    \E p \in Procs : \E c \in Checks(p) :
        /\ c.outcome = "status"
        /\ parseGitHubUrl(c.source.marketplaceUrl) # None
        /\ c.sha # c.source.commitHash
        /\ ~c.status.hasUpdate

BatchDone(p) ==
    /\ proc[p].op = "update" /\ proc[p].pc = "done"
    /\ Get(proc[p].result).kind = "batch"

\* C5: the three lists of a batch partition the tracked bundles, and the
\* summary counts are the list lengths.
C5_Partition ==
    \A p \in Procs :
        BatchDone(p) =>
            LET r == Get(proc[p].result)
                U == Names(r.updated)
                S == Names(r.skipped)
                F == Names(r.failed)
            IN /\ U \cap S = {} /\ U \cap F = {} /\ S \cap F = {}
               /\ U \cup S \cup F = Names(proc[p].tracked)
               /\ Len(r.updated) + Len(r.skipped) + Len(r.failed) = Len(proc[p].tracked)
               /\ Cardinality(Names(proc[p].tracked)) = Len(proc[p].tracked)
               /\ r.summary = [updated |-> Len(r.updated), skipped |-> Len(r.skipped),
                               failed |-> Len(r.failed)]

C5_Witness ==
    \E p \in Procs :
        /\ BatchDone(p)
        /\ Len(proc[p].tracked) = 2
        /\ Len(Get(proc[p].result).failed) = 1
        /\ Len(Get(proc[p].result).updated) = 1

\* C6: after a successful updateSkill the saved Source Record holds the
\* revision that checkForUpdates returned as remoteCommit.
C6_RecordHoldsRemoteCommit ==
    \A p \in Procs :
        (HasReturned(p) /\ Ret(p).ret.success)
        => (/\ Exists(fs, Ret(p).location)
            /\ getSource(fs, Ret(p).location) # None
            /\ Get(getSource(fs, Ret(p).location)).commitHash = Get(Get(Ret(p).status).remoteCommit))

InstallDone(p) == proc[p].op = "install" /\ proc[p].pc = "done"

\* C7: after a successful install the bundle directory holds a Source Record
\* with the marketplace URL, the skill path and the installed revision.
C7_InstallSavesRecord ==
    \A p \in Procs :
        (InstallDone(p) /\ Get(proc[p].result).kind = "installed")
        => LET d == fs[SkillPath(Get(proc[p].arg))]
               r == getSource(fs, SkillPath(Get(proc[p].arg)))
           IN /\ r # None
              /\ Get(r).marketplaceUrl = Get(proc[p].urlArg)
              /\ Get(r).skillPath = Get(proc[p].arg)
              /\ Get(r).commitHash = d.ver

NoArtifactLeft(made) == Artifacts(made) \cap DOMAIN fs = {}

C9_UntrackedReported ==
    \A p \in Procs :
        (proc[p].op = "update" /\ proc[p].pc = "done")
        => \A i \in 1..Len(proc[p].selected) :
              proc[p].selected[i].source = None
              => (/\ Get(proc[p].result).kind \in {"untracked", "notracking"}
                  /\ proc[p].selected[i].name \notin Names(Get(proc[p].result).failed))

\* the call that has returned and the call before it are for the same URL
SameUrlPair == fcall.pc = "done" /\ prevCall # None /\ Get(prevCall).url = fcall.url

\* a call that found an entry one hour old or older lists the remote once
\* and replaces the entry
RefetchOnExpiry ==
    (fcall.pc = "done" /\ fcall.seenTs # -1 /\ fcall.at - fcall.seenTs >= CACHE_DURATION_MS)
    => (/\ fcall.listings = 1
        /\ cache[fcall.url] = Some([skills |-> fcall.result, timestamp |-> fcall.entryTs])
        /\ fcall.entryTs >= fcall.at)

\* C10 as stated: of two consecutive calls for one URL less than an hour
\* apart, the second returns the list of the first and asks the remote
\* nothing; a call that finds an expired entry refetches once.
C10_Original ==
    /\ (SameUrlPair /\ fcall.at - Get(prevCall).at < CACHE_DURATION_MS)
       => (fcall.result = Get(prevCall).result /\ fcall.listings = 0)
    /\ RefetchOnExpiry

\* C10 amended: the hour counts from the timestamp of the cache entry that the
\* first call created or returned, not from the time of the first call.
C10_CacheWindow ==
    /\ (/\ SameUrlPair
        /\ Get(prevCall).entryTs # -1
        /\ fcall.at - Get(prevCall).entryTs < CACHE_DURATION_MS)
       => (fcall.result = Get(prevCall).result /\ fcall.listings = 0)
    /\ RefetchOnExpiry

C10_Witness ==
    /\ SameUrlPair
    /\ Get(prevCall).entryTs # -1
    /\ fcall.at > Get(prevCall).entryTs
    /\ fcall.at - Get(prevCall).entryTs < CACHE_DURATION_MS
    /\ fcall.listings = 0
    /\ fcall.result # <<>>

\* a fetchAllSkills call that has returned
MergeDone == call.fn = "fetchAllSkills" /\ call.done

\* the places <<k, j>> at which a skill called n was fetched: the j-th entry
\* of the list of the k-th URL
FetchedAt(n) ==
    {<<k, j>> \in (1..Len(call.fetched)) \X (1..Cardinality(Skills)) :
        j <= Len(call.fetched[k]) /\ call.fetched[k][j].name = n}

\* the place that comes first
Earlier(a, b) == a[1] < b[1] \/ (a[1] = b[1] /\ a[2] < b[2])
FirstAt(n) == CHOOSE a \in FetchedAt(n) : \A b \in FetchedAt(n) : a = b \/ Earlier(a, b)

\* C11: fetchAllSkills(urls) returns at most one entry per skill name; the
\* entry of a name is the one of the earliest URL of urls whose catalog has
\* that name; the entries are in the order of their first occurrence.
C11_FirstOccurrenceWins ==
    MergeDone =>
        LET out == call.acc
        IN /\ \A i, j \in 1..Len(out) : i # j => out[i].name # out[j].name
           /\ \A n \in Skills : (FetchedAt(n) # {}) <=> (n \in Names(out))
           /\ \A i \in 1..Len(out) :
                LET a == FirstAt(out[i].name)
                IN /\ out[i] = call.fetched[a[1]][a[2]]
                   /\ out[i].marketplaceUrl = call.urls[a[1]]
           /\ \A i, j \in 1..Len(out) :
                i < j => Earlier(FirstAt(out[i].name), FirstAt(out[j].name))

\* two different marketplaces both list alpha, only the second lists beta
C11_Witness ==
    /\ MergeDone
    /\ Len(call.urls) = 2
    /\ call.urls[1] # call.urls[2]
    /\ Names(call.fetched[1]) = {"alpha"}
    /\ Names(call.fetched[2]) = {"alpha", "beta"}
    /\ Len(call.acc) = 2

\* a handleInstall that failed in its try block and has returned
InstallFailed(p) == InstallDone(p) /\ Get(proc[p].result).kind = "failed"
\* the removals of the catch block of handleInstall
InstallCleanupSteps == {"cleanup", "cleanup_dir"}
\* nothing at the install location, no staging directory, an error result
\* with the error of the step that failed
InstallUndone(p) ==
    /\ ~Exists(fs, Get(proc[p].skill).location)
    /\ ~Exists(fs, Get(proc[p].tempDir))
    /\ Get(proc[p].result).isError
    /\ proc[p].err \in proc[p].faults

C13_AlwaysToolResult ==
    \A p \in Procs :
        (proc[p].pc = "done") => (proc[p].result # None /\ Get(proc[p].result).kind # "threw")

\* invocation p is inside the mutating part of an install or an update: from
\* the clone to the return of updateSkill or handleInstall
Mutating(p) ==
    /\ proc[p].skill # None
    /\ proc[p].pc \in {"us_clone", "us_sparse_init", "us_sparse_set", "us_checkout",
                       "us_rev_parse", "us_backup", "us_move", "us_save", "us_rm_temp",
                       "us_rm_backup", "us_restore_rm", "us_restore_rename", "us_cleanup",
                       "hi_clone", "hi_sparse_init", "hi_sparse_set", "hi_checkout",
                       "hi_move", "hi_rm_temp", "hi_validate", "hi_catch_rm_temp",
                       "hi_catch_rm_dir"}

\* C14: no two invocations are at the same time inside the mutating part of
\* an install or update of the same bundle directory.
C14_OneMutatorPerBundle ==
    \A p, q \in Procs :
        (p # q /\ Mutating(p) /\ Mutating(q))
        => Get(proc[p].skill).location # Get(proc[q].skill).location

\* the place of a bundle in the discovery order of the batch of p
PlaceIn(seq, n) == CHOOSE i \in 1..Len(seq) : seq[i].name = n
\* the entries of a list are in the order of seq
InOrderOf(seq, list) ==
    \A i, j \in 1..Len(list) :
        i < j => PlaceIn(seq, list[i].name) < PlaceIn(seq, list[j].name)
\* the tracked bundles of p whose update has reached its outcome
Settled(p) == Names(proc[p].updated) \cup Names(proc[p].skipped) \cup Names(proc[p].failed)

\* C15: within one handleUpdate the tracked bundles are updated one at a time
\* in discovery order: when the update of a bundle is under way, exactly the
\* bundles before it have their outcome, and each of the three lists is in
\* discovery order.
C15_OneAtATimeInOrder ==
    \A p \in Procs :
        (proc[p].op = "update") =>
            LET l == proc[p]
                done == Len(l.tracked) - Len(l.queue)
            IN /\ InOrderOf(l.selected, l.tracked)
               /\ done >= 0
               /\ l.queue = SubSeq(l.tracked, done + 1, Len(l.tracked))
               /\ Settled(p) = {l.tracked[i].name : i \in 1..done}
               /\ (l.skill # None) => (l.queue # <<>> /\ Get(l.skill) = Head(l.queue))
               /\ InOrderOf(l.tracked, l.updated)
               /\ InOrderOf(l.tracked, l.skipped)
               /\ InOrderOf(l.tracked, l.failed)

\* a batch of two tracked bundles that has updated both
C15_Witness ==
    \E p \in Procs :
        /\ BatchDone(p)
        /\ Len(proc[p].tracked) = 2
        /\ Len(Get(proc[p].result).updated) = 2
        /\ Get(proc[p].result).updated[1].name = proc[p].tracked[1].name

\* a call of the marketplace manager that has ended
ClientDone == call.fn # "none" /\ call.done
\* every request of the call failed, or its URL did not resolve
AllFailed == \A k \in 1..Len(call.failures) : call.failures[k]

\* C16: fetchSkillsFromMarketplace, fetchAllSkills, getLatestCommit and
\* checkForUpdates never throw; on a transport error, a non-success status, a
\* body that is not JSON or not an array, and on a URL that does not resolve,
\* they return an empty list, null and an error status respectively.
C16_ClientNeverThrows ==
    ClientDone =>
        /\ ~call.threw
        /\ \A k \in 1..Len(call.fetched) : call.failures[k] => call.fetched[k] = <<>>
        /\ (call.fn \in {"fetchSkillsFromMarketplace", "fetchAllSkills"} /\ AllFailed)
           => call.acc = <<>>
        /\ (call.fn = "getLatestCommit" /\ AllFailed) => call.commit = None
        /\ (call.fn = "checkForUpdates" /\ AllFailed)
           => (/\ ~Get(call.status).hasUpdate
               /\ Get(call.status).error = FetchError
               /\ Get(call.status).remoteCommit = None)

\* a fetchAllSkills over a string that is no URL and a marketplace whose
\* listing request was answered by a failure
C16_Witness ==
    /\ ClientDone
    /\ call.fn = "fetchAllSkills"
    /\ call.urls = <<NotAUrl, GoodUrl>>
    /\ AllFailed
    /\ call.acc = <<>>

\* a parseGitHubUrl call that has returned
Parsed == call.fn = "parseGitHubUrl" /\ call.done
\* a name: a segment that is not empty and not a dot segment
IsName(seg) == seg \notin {"", ".", ".."}
\* the string is https://github.com/<owner>/<repo>/tree/<branch>[/<seg>...]
OfTheForm(url) ==
    /\ url.scheme = "https"
    /\ url.host = "github.com"
    /\ Len(url.parts) >= 4
    /\ url.parts[3] = "tree"
    /\ \A i \in 1..Len(url.parts) : IsName(url.parts[i])

PathSegments(url) == NonEmpty(pathname(url))

\* C18: parseGitHubUrl returns null and does not throw when the host is not
\* github.com, when the path has fewer than 4 non-empty segments, when the
\* third segment is not 'tree', and when the string is no URL at all.
C18_RejectsWithoutThrowing ==
    Parsed =>
        /\ ~call.threw
        /\ (\/ ~Parseable(call.url)
            \/ call.url.host # "github.com"
            \/ Len(PathSegments(call.url)) < 4
            \/ PathSegments(call.url)[3] # "tree")
           => call.out = None

\* a tree URL of another host, and a string that is no URL, both refused
C18_Witness ==
    /\ Parsed
    /\ call.out = None
    /\ ~call.threw
    /\ call.url.parts = <<"owner", "main", "tree", "main">>
    /\ (call.url.host # "github.com" \/ ~Parseable(call.url))

\* C19: parseGitHubUrl refuses every string that is not of the shape
\* https://github.com/<owner>/<repo>/tree/<branch>/<subpath...>, a URL of
\* another scheme included.
C19_OnlyHttpsTreeUrls ==
    (Parsed /\ call.out # None) =>
        /\ call.url.scheme = "https"
        /\ call.url.host = "github.com"
        /\ Len(PathSegments(call.url)) >= 4
        /\ PathSegments(call.url)[3] = "tree"

\* a filterSkills call that has returned
Filtered == call.fn = "filterSkills" /\ call.done
\* two characters that are the same letter, whatever their case
SameLetter(c, d) == c = d \/ {c, d} = {"a", "A"} \/ {c, d} = {"b", "B"}
\* the text holds q somewhere, case aside
ContainsCI(str, q) ==
    \E i \in 0..Len(str) :
        /\ i + Len(q) <= Len(str)
        /\ \A k \in 1..Len(q) : SameLetter(str[i + k], q[k])
\* the query is empty or made of white space only
Blank(q) == \A k \in 1..Len(q) : q[k] = " "

\* C20: filterSkills(skills, q) returns, in their order, exactly the entries
\* whose name or description contains q case-insensitively, and all the
\* entries unchanged when q is empty or white space only.
C20_FilterBySubstring ==
    Filtered =>
        IF Blank(call.filter)
        THEN call.out = call.skills
        ELSE call.out = SelectSeq(call.skills, LAMBDA e : ContainsCI(e.name, call.filter)
                                                         \/ ContainsCI(e.description, call.filter))

\* a query with a capital and a space: of two entries one is kept, by its
\* description only, and the other is left out
C20_Witness ==
    /\ Filtered
    /\ call.filter = <<"B", " ">>
    /\ Len(call.skills) = 2
    /\ Len(call.out) = 1
    /\ ~ContainsCI(call.out[1].name, call.filter)

\* ------------------------------------------------------------------- C21
\* C21: getSource(d) gives back the record of the last saveSource(d, r) that
\* succeeded, whatever the sidecar of d held before, when the file can be read
\* and nothing else wrote it in between.
C21_SaveThenGet ==
    (call.fn = "getSource" /\ call.read = "ok" /\ call.saved[call.dir.name] # None)
    => (~call.threw /\ call.value = call.saved[call.dir.name])

\* a record read back from a sidecar whose earlier record the save replaced
C21_Witness ==
    /\ call.fn = "getSource"
    /\ call.read = "ok"
    /\ call.saved[call.dir.name] # None
    /\ call.over[call.dir.name]
    /\ call.value = call.saved[call.dir.name]
    /\ Get(call.value).branch # None

\* ------------------------------------------------------------------- C22
\* C22: getSource(d) does not throw, and it returns null when d holds no
\* sidecar and when the sidecar does not parse as JSON.
C22_NullWithoutThrowing ==
    call.fn = "getSource"
    => /\ ~call.threw
       /\ (~hasSource(fs, call.dir) \/ parse(Get(fs[call.dir].src)).threw)
          => call.value = None

\* a sidecar that is there and is not JSON, read as null
C22_Witness ==
    /\ call.fn = "getSource"
    /\ call.read = "ok"
    /\ hasSource(fs, call.dir)
    /\ Get(fs[call.dir].src) \in NotJson
    /\ ~call.threw
    /\ call.value = None

\* ------------------------------------------------------------------- C23
\* the list getMarketplaces would return now: that of configCache, else that
\* of the config file, else the default
Configured ==
    IF config.configCache # None THEN config.heap[Get(config.configCache)]
    ELSE IF config.file # None /\ ~parseConfig(Get(config.file)).threw
    THEN parseConfig(Get(config.file)).value
    ELSE <<DEFAULT_MARKETPLACE>>

\* the lists of every config object and of the config file
AllLists == {config.heap[i] : i \in 1..Len(config.heap)} \cup {Configured}

\* the step in which call p of `op` tests the list of its config
Applies(p, op) ==
    /\ config.calls[p].pc = "apply"
    /\ config.calls[p].op = op
    /\ config'.calls[p].pc # "apply"

\* C23: the configured list is never empty, and removeMarketplace(u) changes
\* neither a list nor the config file when u is the only entry or is absent.
C23_NeverEmpty ==
    /\ [](\A l \in AllLists : l # <<>>)
    /\ [][\A p \in Procs :
            LET list == config.heap[config.calls[p].ref]
            IN (Applies(p, "remove")
                /\ (Len(list) <= 1 \/ indexOf(list, config.calls[p].url) = 0 - 1))
               => /\ config'.heap = config.heap
                  /\ config'.file = config.file
                  /\ config'.calls[p].pc = "done"]_vars

\* a removal refused because the URL was the only entry of the cached config
C23_Witness ==
    \E p \in Procs :
        /\ config.calls[p].pc = "done"
        /\ config.calls[p].op = "remove"
        /\ config.calls[p].before = <<config.calls[p].url>>
        /\ config.heap[config.calls[p].ref] = <<config.calls[p].url>>
        /\ config.configCache = Some(config.calls[p].ref)
        /\ config.file = Some(stringifyConfig(<<config.calls[p].url>>))

\* ------------------------------------------------------------------- C24
\* C24: addMarketplace(u) with u in the list changes neither a list nor the
\* config file nor configCache, and no list ever holds a URL twice.
C24_AddIdempotent ==
    /\ [](\A l \in AllLists : NoDuplicates(l))
    /\ [][\A p \in Procs :
            (Applies(p, "add")
             /\ indexOf(config.heap[config.calls[p].ref], config.calls[p].url) # 0 - 1)
            => /\ config'.heap = config.heap
               /\ config'.file = config.file
               /\ config'.configCache = config.configCache
               /\ config'.calls[p].pc = "done"]_vars

\* a second addMarketplace(u) that found u in the list the first one saved
C24_Witness ==
    \E p \in Procs :
        /\ config.calls[p].pc = "done"
        /\ config.calls[p].op = "add"
        /\ ~config.calls[p].threw
        /\ config.calls[p].before = config.heap[config.calls[p].ref]
        /\ indexOf(config.calls[p].before, config.calls[p].url) = Len(config.calls[p].before)
        /\ config.file = Some(stringifyConfig(config.calls[p].before))
        /\ config.configCache = Some(config.calls[p].ref)
        /\ Len(config.calls[p].before) = 2

\* ------------------------------------------------------------------- C25
Discovered == call.fn = "discoverAllSkills" /\ call.done

\* the skills that the directory of the i-th search path gives
FoundAt(i) == discoverSkillsInPath(call.disk, call.unreadable, call.paths[i])

\* the first search path that gives a skill called n
FirstPath(n) ==
    CHOOSE i \in 1..Len(call.paths) :
        /\ n \in Names(FoundAt(i))
        /\ \A j \in 1..(i - 1) : n \notin Names(FoundAt(j))

\* C25: discoverAllSkills(paths) returns one skill for each name found under
\* some search path and no other, and that skill is one found under the
\* first search path that has a skill of that name.
C25_EarliestPathWins ==
    Discovered
    => /\ \A i, j \in 1..Len(call.out) : call.out[i].name = call.out[j].name => i = j
       /\ Names(call.out) = UNION {Names(FoundAt(i)) : i \in 1..Len(call.paths)}
       /\ \A k \in 1..Len(call.out) :
            \E e \in 1..Len(FoundAt(FirstPath(call.out[k].name))) :
                FoundAt(FirstPath(call.out[k].name))[e] = call.out[k]

\* two search paths that both hold a skill of one name, in different
\* directories: the one of the first path is returned
C25_Witness ==
    /\ Discovered
    /\ Len(call.paths) = 2
    /\ call.paths[1] # call.paths[2]
    /\ \E n \in Names(FoundAt(1)) \cap Names(FoundAt(2)) :
         \E k \in 1..Len(call.out) :
            /\ call.out[k].name = n
            /\ call.out[k].location[1] = call.paths[1]
            /\ \E e \in 1..Len(FoundAt(2)) :
                 FoundAt(2)[e].name = n /\ FoundAt(2)[e].isValid /\ ~call.out[k].isValid

\* ------------------------------------------------------------------- C26
\* C26: a skill that the server's SkillDiscoveryManager discovers in a bundle
\* directory with a valid Source Record carries that record in its source
\* field, and handleUpdate counts it among the tracked skills.
C26_RecordedIsTracked ==
    \A p \in Procs :
        (proc[p].op = "update" /\ proc[p].manager = "SkillDiscoveryManager")
        => \A i \in 1..Len(proc[p].selected) :
              LET sk == proc[p].selected[i]
              IN getSource(fs, sk.location) # None
                 => /\ sk.source = getSource(fs, sk.location)
                    /\ sk.name \in Names(proc[p].tracked)

\* ------------------------------------------------------------------- C27
\* the bundle location holds the directory that was there before the call
PreUpdateInPlace(u) ==
    /\ Exists(fs, u.location)
    /\ fs[u.location] = Get(u.pre)

\* the bundle location holds the whole content of the clone and a Source
\* Record of the new revision
NewVersionInPlace(u) ==
    /\ Exists(fs, u.location)
    /\ fs[u.location].whole
    /\ u.ret.result # None
    /\ fs[u.location].ver = Get(u.ret.result).newCommit
    /\ getSource(fs, u.location) # None
    /\ Get(getSource(fs, u.location)).commitHash = Get(u.ret.result).newCommit

\* C27: when updateSkill returns after at most one of its steps failed, the
\* bundle location holds the pre-update directory and the result is a
\* failure, or it holds the new version with a new Source Record and the
\* result is a success.
C27_OldOrNew ==
    \A p \in Sequential :
        (HasReturned(p) /\ Cardinality(Ret(p).faults) <= 1)
        => \/ ~Ret(p).ret.success /\ PreUpdateInPlace(Ret(p))
           \/ Ret(p).ret.success /\ NewVersionInPlace(Ret(p))

\* ------------------------------------------------------------------- C28
\* C28: an updateSkill call on a bundle whose marketplace URL does not resolve
\* returns the failure 'Invalid marketplace URL', and handleUpdate lists the
\* bundle under failed and not under skipped.
C28_UnresolvableIsFailure ==
    \A p \in Procs :
        (HasReturned(p) /\ parseGitHubUrl(Ret(p).source.marketplaceUrl) = None)
        => /\ ~Ret(p).ret.success
           /\ Ret(p).ret.error = "Invalid marketplace URL"
           /\ BatchDone(p) => /\ Ret(p).name \in Names(Get(proc[p].result).failed)
                               /\ Ret(p).name \notin Names(Get(proc[p].result).skipped)

\* ------------------------------------------------------------------- C29
\* the updateSkill call that returns in this step of invocation p, when the
\* remote revision was fetched and equals the stored one
ReturnsUpToDate(p) ==
    /\ proc[p].pc = "us_begin"
    /\ proc'[p].lastUS # None
    /\ Get(Get(proc'[p].lastUS).status).remoteCommit
         = Some(Get(proc'[p].lastUS).source.commitHash)

FetchedListing(u) ==
    /\ call'.fn \in {"fetchSkillsFromMarketplace", "fetchAllSkills"}
    /\ Len(call'.failures) = (IF call.fn = "none" THEN 0 ELSE Len(call.failures)) + 1
    /\ call'.urls[Len(call'.failures)] = u
    /\ ~call'.failures[Len(call'.failures)]
    /\ ~CacheHit(cache, u, now)

\* C30: the cache entry of a catalog URL is created or replaced only in a
\* fetch of that URL whose directory listing succeeded (a failed listing
\* leaves the cache as it is), and no entry is ever removed.
C30_CachedOnlyOnSuccess ==
    [][\A u \in Catalogs :
          /\ cache[u] # None => cache'[u] # None
          /\ cache'[u] # cache[u] => FetchedListing(u)]_vars

\* ------------------------------------------------------------------- C31
\* C31: a checkForUpdates call leaves the marketplace cache as it is, and its
\* result is the comparison of the Source Record's revision with the newest
\* revision of the skill's path on the remote at the time of the call
\* (no remote revision and no update when the query was not answered),
\* whatever the cache holds and whatever was answered before.
C31_FreshCheck ==
    [][(call.fn = "none" /\ call'.fn = "checkForUpdates")
       => LET source == Get(call'.source)
              st == Get(call'.status)
              remote == pathCommit[source.skillPath]
          IN /\ cache' = cache
             /\ st.localCommit = source.commitHash
             /\ IF call'.failures[1]
                THEN st.remoteCommit = None /\ ~st.hasUpdate
                ELSE /\ st.remoteCommit = Some(remote)
                     /\ st.hasUpdate <=> (remote # source.commitHash)]_vars

\* a check made while the cache holds a catalog, after a push to the skill's
\* path: the record was current before the push, and the check sees the update
C31_Witness ==
    /\ call.fn = "checkForUpdates"
    /\ \E u \in Catalogs : cache[u] # None /\ Get(cache[u]).skills # <<>>
    /\ Get(call.source).commitHash = 1
    /\ pathCommit[Get(call.source).skillPath] > 1
    /\ Get(call.status).hasUpdate
    /\ Get(call.status).remoteCommit = Some(pathCommit[Get(call.source).skillPath])

\* ------------------------------------------------------------------- C32
\* C32: two invocations that are at the same time inside an install or an
\* update have different staging directories and different backup
\* directories.
C32_DistinctStaging ==
    \A p, q \in Procs :
        (p # q /\ Mutating(p) /\ Mutating(q))
        => /\ proc[p].tempDir # proc[q].tempDir
           /\ (proc[p].backupDir # None /\ proc[q].backupDir # None)
              => proc[p].backupDir # proc[q].backupDir

\* ------------------------------------------------------------------- C33
\* the entries of the listing that are directories with a SKILL.md that was
\* fetched and parsed
Qualifies(e) == e.type = "dir" /\ e.file \in Skills
ListedAt(n) == CHOOSE i \in 1..Len(call.listed) : call.listed[i].name = n

\* C33: a fetchSkillsFromMarketplace call that misses the cache returns one
\* entry for each directory of the listing whose SKILL.md was fetched and
\* parsed and none for any other entry, in listing order, each with the URL of
\* the call.
C33_OneEntryPerSkillDir ==
    (call.fn = "fetchCatalog" /\ call.miss)
    => LET out == call.skills
       IN /\ \A i \in 1..Len(call.listed) :
                Cardinality({k \in 1..Len(out) : out[k].dir = call.listed[i].name})
                  = IF Qualifies(call.listed[i]) THEN 1 ELSE 0
          /\ \A k \in 1..Len(out) :
                /\ out[k].marketplaceUrl = call.url
                /\ \E i \in 1..Len(call.listed) : call.listed[i].name = out[k].dir
          /\ \A k, m \in 1..Len(out) : k < m => ListedAt(out[k].dir) < ListedAt(out[m].dir)

\* a listing of a file and a directory, both with a text that parses: the
\* directory alone gives an entry
C33_Witness ==
    /\ call.fn = "fetchCatalog" /\ call.miss
    /\ Len(call.listed) = 2
    /\ call.listed[1].type = "file" /\ call.listed[1].file \in Skills
    /\ Qualifies(call.listed[2])
    /\ Len(call.skills) = 1

\* ------------------------------------------------------------------- C38
\* C38: for every entry that fetchAllSkills returns, the subpath that
\* handleInstall checks out when it is given the name of the entry's install
\* command is the catalog path joined with the name of the directory whose
\* SKILL.md produced the entry.
C38_InstallStagesListedDir ==
    (call.fn = "fetchCatalog" /\ call.miss)
    => \A k \in 1..Len(call.allSkills) :
          LET entry == call.allSkills[k]
              skill_name == entry.installCommand[2]
              skill == Get(findSkill(call.allSkills, skill_name))
              basePath == Get(parseGitHubUrl(skill.marketplaceUrl)).path
          IN subPath(basePath, skill_name) = subPath(basePath, entry.dir)

\* ------------------------------------------------------------------- C34
\* C34: when checkSkillUpdates has completed, every skill with a source has
\* as updateStatus the result of checkForUpdates on its own source with the
\* answer the remote gave to its own query, and every skill without a source
\* has no updateStatus.
C34_OwnStatus ==
    (call.fn = "checkSkillUpdates" /\ call.pc = "done")
    => \A i \in 1..Len(call.skills) :
          LET skill == call.skills[i]
          IN IF skill.source = None
             THEN skill.updateStatus = None
             ELSE skill.updateStatus = Some(checkForUpdates(Get(skill.source), skill.answer))

\* two tracked skills whose checks ended differently: one has an update, the
\* query of the other was not answered
C34_Witness ==
    /\ call.fn = "checkSkillUpdates" /\ call.pc = "done"
    /\ Len(call.skills) = 2
    /\ call.skills[1].source # None
    /\ Get(call.skills[1].updateStatus).hasUpdate
    /\ call.skills[2].source # None
    /\ Get(call.skills[2].updateStatus).error # ""

\* ------------------------------------------------------------------- C35
\* C35: every entry of the updated list of a handleUpdate invocation has a
\* new revision that differs from the previous one.
C35_UpdatedMeansChanged ==
    \A p \in Procs :
        \A k \in 1..Len(proc[p].updated) :
            proc[p].updated[k].newCommit # proc[p].updated[k].previousCommit

\* ------------------------------------------------------------------- C36
\* handleInstall invocation p has ended with the bundle installed
InstallSucceeded(p) == InstallDone(p) /\ ~Get(proc[p].result).isError /\ proc[p].skill # None

\* C36: when one of two handleInstall invocations for the same skill has
\* installed the bundle and the other has returned its error, the bundle
\* directory that the first one made is at its location, whole.
C36_InstallKeepsOthersBundle ==
    \A p, q \in Procs :
        (/\ p # q
         /\ InstallSucceeded(p)
         /\ InstallFailed(q)
         /\ proc[p].arg = proc[q].arg)
        => LET skillDir == Get(proc[p].skill).location
           IN /\ Exists(fs, skillDir)
              /\ fs[skillDir].type = "bundle"
              /\ fs[skillDir].whole

\* ------------------------------------------------------------------- C37
\* the bundle location of u holds what it held before the call, Source Record
\* included
OldInPlace(u) == Exists(fs, u.location) /\ u.pre # None /\ fs[u.location] = Get(u.pre)

\* the bundle location of u holds a whole checkout of a remote revision and a
\* Source Record of that revision
NewInPlace(u) ==
    /\ Exists(fs, u.location)
    /\ fs[u.location].type = "bundle"
    /\ fs[u.location].whole
    /\ fs[u.location].ver >= 1
    /\ getSource(fs, u.location) # None
    /\ Get(getSource(fs, u.location)).commitHash = fs[u.location].ver

\* C37: when two updateSkill calls on the same bundle directory have both
\* returned, the location holds the pre-update directory or a whole new
\* version with its Source Record, and one of the calls at least has
\* reported the outcome that goes with it.
C37_ConcurrentOldOrNew ==
    \A p, q \in Procs :
        (/\ p # q
         /\ HasReturned(p) /\ HasReturned(q)
         /\ Ret(p).location = Ret(q).location
         /\ Ret(p).pre = Ret(q).pre)
        => \/ OldInPlace(Ret(p)) /\ (~Ret(p).ret.success \/ ~Ret(q).ret.success)
           \/ NewInPlace(Ret(p)) /\ (Ret(p).ret.success \/ Ret(q).ret.success)

\* ------------------------------------------------------------------- C39
\* the list of the config file, as a ConfigManager that starts would read it
Persisted ==
    IF config.file # None /\ ~parseConfig(Get(config.file)).threw
    THEN parseConfig(Get(config.file)).value
    ELSE <<DEFAULT_MARKETPLACE>>

\* C39: when the only call made so far, an addMarketplace or a
\* removeMarketplace, has thrown because the config file could not be saved,
\* the list that getMarketplaces gives next on the same ConfigManager is the
\* persisted one, which that call has not changed.
C39_FailedSaveChangesNothing ==
    \A p \in Procs :
        (/\ config.started = 1
         /\ config.calls[p].pc = "done"
         /\ config.calls[p].op \in {"add", "remove"}
         /\ config.calls[p].threw)
        => Configured = Persisted

====
